---------------------------- MODULE Spec2Model ----------------------------
(***************************************************************************)
(* State-aggregation engine of acserver-exporter: the UDP frame decoder,   *)
(* the event handlers that update the roster (cars), the session context   *)
(* and the four lifetime counters, the HTTP snapshot fetch and the metrics *)
(* handler.  Text is modelled as sequences of bytes (0..255), datagrams    *)
(* as sequences of bytes, the monitor object as one record m.              *)
(***************************************************************************)
EXTENDS Integers, Sequences, FiniteSets, TLC

VARIABLES
    m,          \* the ACServerMonitor object (its data fields)
    data,       \* Listen: buffer[:n] of the datagram received last
    nframes,    \* number of datagrams received so far
    recvErrors, \* history: for each receive error, the datagrams received before it
    events,     \* history: per kind, datagrams received that passed the length guard
    resp,       \* the HTTP response the last snapshot fetch got
    fetchErr,   \* whether the last FetchHTTPInfo returned an error
    nfetch,     \* number of snapshot fetches so far
    succeeded,  \* history: a record was stored whose response had a status below 400
    metrics,    \* body of the last metrics response written
    printed,    \* the last PrintStats line
    sent,       \* slots of the car-info requests the last poll cycle has sent so far
    mu,         \* m.mu: the task holding it exclusively, the tasks sharing it
    metricsLock,\* m.metricsLock, likewise
    prog,       \* decode task: the steps its running handler still has to take
    pc,         \* poll, metrics and query task: the point each has reached
    loc,        \* poll, metrics and query task: local variables
    runs,       \* per task, how many times it has been started
    stable      \* history: the roster as of the last completed update

seqVars ==
    <<m, data, nframes, recvErrors, events, resp, fetchErr, nfetch, succeeded, metrics, printed, sent>>
concVars == <<mu, metricsLock, prog, pc, loc, runs, stable>>
vars == <<seqVars, concVars>>

---------------------------------------------------------------------------
(* Bounds of the model *)

MaxFrames == 2
MaxSnapEvents == 2
MaxConcEvents == 2
MaxRecvErrors == 1

---------------------------------------------------------------------------
(* types.go: protocol constants *)

ACSP_ERROR == 0
ACSP_CHAT == 1
ACSP_CLIENT_LOADED == 2
ACSP_NEW_SESSION == 3
ACSP_NEW_CONNECTION == 4
ACSP_CONNECTION_CLOSED == 5
ACSP_CAR_INFO == 7
ACSP_LAP_COMPLETED == 9
ACSP_VERSION == 10
ACSP_SESSION_INFO == 11
ACSP_CLIENT_EVENT == 12

\* a nil pointer, and a variable that holds nothing yet
Nil == [nil |-> TRUE]

---------------------------------------------------------------------------
(* Bytes and text *)

Min(a, b) == IF a < b THEN a ELSE b

\* make([]byte, n): n zero bytes
Zeros(n) == [k \in 1..n |-> 0]

\* strings.TrimRight(s, "\x00"): s up to its last byte that is not zero
TrimRightNul(s) ==
    LET nz == {i \in 1..Len(s) : s[i] # 0}
    IN  IF nz = {} THEN <<>>
        ELSE SubSeq(s, 1, CHOOSE i \in nz : \A j \in nz : j <= i)

\* the bytes read with the most significant byte first
RECURSIVE LittleEndian_BigEndian(_)
LittleEndian_BigEndian(bs) ==
    IF bs = <<>> THEN 0
    ELSE bs[Len(bs)] + 256 * LittleEndian_BigEndian(SubSeq(bs, 1, Len(bs) - 1))

\* little-endian value of a byte sequence
RECURSIVE LittleEndian(_)
LittleEndian(bs) ==
    IF bs = <<>> THEN 0 ELSE bs[1] + 256 * LittleEndian(Tail(bs))

\* bytes.NewReader(data): the bytes and the read index
NewReader(bs) == [s |-> bs, i |-> 0]

Remaining(r) == Len(r.s) - r.i

\* binary.Read(reader, binary.LittleEndian, &v) for an unsigned integer of n
\* bytes, v being zero before: io.ReadFull consumes what is left; on a short
\* read the error is returned (and ignored by the callers) and v stays 0.
ReadUint(r, n) ==
    IF Remaining(r) >= n
    THEN [v |-> LittleEndian(SubSeq(r.s, r.i + 1, r.i + n)),
          err |-> FALSE, r |-> [r EXCEPT !.i = r.i + n]]
    ELSE [v |-> 0, err |-> TRUE, r |-> [r EXCEPT !.i = Len(r.s)]]

\* bytes.Reader.Read(b) with len(b) = n > 0: copies min(n, remaining) bytes
\* into b (zero-filled before) and fails only when nothing remains.
ReaderRead(r, n) ==
    IF Remaining(r) = 0
    THEN [b |-> Zeros(n), err |-> TRUE, r |-> r]
    ELSE LET k == Min(n, Remaining(r))
         IN  [b |-> SubSeq(r.s, r.i + 1, r.i + k) \o Zeros(n - k),
              err |-> FALSE, r |-> [r EXCEPT !.i = r.i + k]]

readString(r) ==
    LET l == ReadUint(r, 1)
    IN  IF l.err \/ l.v = 0 THEN [v |-> <<>>, r |-> l.r]
        ELSE LET rd == ReaderRead(l.r, l.v)
             IN  IF rd.err THEN [v |-> <<>>, r |-> rd.r]
                 ELSE [v |-> TrimRightNul(rd.b), r |-> rd.r]

---------------------------------------------------------------------------
(* The monitor object *)

\* NewACServerMonitor: an empty cars map, every other field its zero value
NewACServerMonitor ==
    [cars |-> <<>>, serverInfo |-> Nil,
     serverName |-> <<>>, trackName |-> <<>>, sessionType |-> "",
     totalLaps |-> 0, totalCollisions |-> 0,
     totalConnections |-> 0, totalDisconnections |-> 0]

\* &CarInfo{}
ZeroCarInfo ==
    [CarID |-> 0, IsConnected |-> FALSE, CarModel |-> <<>>, CarSkin |-> <<>>,
     DriverName |-> <<>>, DriverGUID |-> <<>>]

\* m.cars[carID] != nil
HasCar(cars, carID) == carID \in DOMAIN cars

\* m.cars[carID] = rec
PutCar(cars, carID, rec) ==
    [k \in DOMAIN cars \cup {carID} |-> IF k = carID THEN rec ELSE cars[k]]

\* the loop of GetConnectedCount over the map, one entry at a time
RECURSIVE CountConnected(_, _)
CountConnected(cars, keys) ==
    IF keys = {} THEN 0
    ELSE LET k == CHOOSE x \in keys : TRUE
         IN  (IF cars[k].IsConnected THEN 1 ELSE 0)
             + CountConnected(cars, keys \ {k})

\* a count of the records instead of the connected ones
GetConnectedCount_CountAll(mon) == Cardinality(DOMAIN mon.cars)

GetConnectedCount(mon) == CountConnected(mon.cars, DOMAIN mon.cars)

---------------------------------------------------------------------------
(* The event handlers: each takes the monitor and the payload data[1:] and *)
(* gives the monitor after the handler has returned.                       *)

\* the fields handleNewSession decodes and uses
DecodeNewSession(payload) ==
    LET version == ReadUint(NewReader(payload), 1)
        sessionIndex == ReadUint(version.r, 1)
        currentSessionIndex == ReadUint(sessionIndex.r, 1)
        sessionCount == ReadUint(currentSessionIndex.r, 1)
        serverName == readString(sessionCount.r)
        track == readString(serverName.r)
        trackConfig == readString(track.r)
    IN  [serverName |-> serverName.v,
         trackName |-> track.v \o <<32, 40>> \o trackConfig.v \o <<41>>]

\* a new session that also clears the session-type label
handleNewSession_ClearType(mon, payload) ==
    IF Len(payload) < 4 THEN mon
    ELSE LET d == DecodeNewSession(payload)
         IN  [mon EXCEPT !.serverName = d.serverName,
                         !.trackName = d.trackName,
                         !.sessionType = ""]

\* a new session that also starts the four counters afresh
handleNewSession_ResetCounters(mon, payload) ==
    IF Len(payload) < 4 THEN mon
    ELSE LET d == DecodeNewSession(payload)
         IN  [mon EXCEPT !.serverName = d.serverName,
                         !.trackName = d.trackName,
                         !.totalLaps = 0, !.totalCollisions = 0,
                         !.totalConnections = 0, !.totalDisconnections = 0]

handleNewSession(mon, payload) ==
    IF Len(payload) < 4 THEN mon
    ELSE LET d == DecodeNewSession(payload)
         IN  [mon EXCEPT !.serverName = d.serverName,
                         !.trackName = d.trackName]

\* the fields handleNewConnection decodes
DecodeNewConnection(payload) ==
    LET driverName == readString(NewReader(payload))
        driverGUID == readString(driverName.r)
        carID == ReadUint(driverGUID.r, 1)
        carModel == ReadUint(carID.r, 1)
        carSkin == ReadUint(carModel.r, 1)
    IN  [driverName |-> driverName.v, driverGUID |-> driverGUID.v,
         carID |-> carID.v, carModel |-> carModel.v, carSkin |-> carSkin.v]

\* the record replaced as a whole, its car model and skin lost
NewConnectionCars_Replace(cars, d) ==
    PutCar(cars, d.carID,
           [ZeroCarInfo EXCEPT !.CarID = d.carID, !.IsConnected = TRUE,
                               !.DriverName = d.driverName,
                               !.DriverGUID = d.driverGUID])

\* the slot identifier not written: a record created here keeps the zero one
NewConnectionCars_NoSlot(cars, d) ==
    LET c0 == IF HasCar(cars, d.carID) THEN cars
              ELSE PutCar(cars, d.carID, ZeroCarInfo)
    IN  [c0 EXCEPT ![d.carID] =
            [@ EXCEPT !.IsConnected = TRUE,
                      !.DriverName = d.driverName,
                      !.DriverGUID = d.driverGUID]]

\* lines 193-199: create the record if absent, then write four fields
NewConnectionCars(cars, d) ==
    LET c0 == IF HasCar(cars, d.carID) THEN cars
              ELSE PutCar(cars, d.carID, ZeroCarInfo)
    IN  [c0 EXCEPT ![d.carID] =
            [@ EXCEPT !.CarID = d.carID, !.IsConnected = TRUE,
                      !.DriverName = d.driverName,
                      !.DriverGUID = d.driverGUID]]

\* the counter incremented only for a slot that was not connected already
handleNewConnection_OnlyNew(mon, payload) ==
    IF Len(payload) < 1 THEN mon
    ELSE LET d == DecodeNewConnection(payload)
             was == HasCar(mon.cars, d.carID) /\ mon.cars[d.carID].IsConnected
         IN  [mon EXCEPT !.cars = NewConnectionCars(mon.cars, d),
                         !.totalConnections = IF was THEN @ ELSE @ + 1]

handleNewConnection(mon, payload) ==
    IF Len(payload) < 1 THEN mon
    ELSE LET d == DecodeNewConnection(payload)
         IN  [mon EXCEPT !.cars = NewConnectionCars(mon.cars, d),
                         !.totalConnections = @ + 1]

\* the fields handleConnectionClosed decodes
DecodeConnectionClosed(payload) ==
    LET driverName == readString(NewReader(payload))
        carID == ReadUint(driverName.r, 1)
    IN  [driverName |-> driverName.v, carID |-> carID.v]

\* the record reset to an empty one of that slot
ConnectionClosedCars_Reset(cars, carID) ==
    IF HasCar(cars, carID)
    THEN [cars EXCEPT ![carID] = [ZeroCarInfo EXCEPT !.CarID = carID]]
    ELSE cars

\* a disconnected record created for a slot that has none
ConnectionClosedCars_Create(cars, carID) ==
    IF HasCar(cars, carID)
    THEN [cars EXCEPT ![carID] = [@ EXCEPT !.IsConnected = FALSE]]
    ELSE PutCar(cars, carID, [ZeroCarInfo EXCEPT !.CarID = carID])

\* lines 220-222
ConnectionClosedCars(cars, carID) ==
    IF HasCar(cars, carID)
    THEN [cars EXCEPT ![carID] = [@ EXCEPT !.IsConnected = FALSE]]
    ELSE cars

\* the record deleted from the map
handleConnectionClosed_Delete(mon, payload) ==
    IF Len(payload) < 1 THEN mon
    ELSE LET d == DecodeConnectionClosed(payload)
         IN  [mon EXCEPT
                !.cars = [k \in DOMAIN mon.cars \ {d.carID} |-> mon.cars[k]],
                !.totalDisconnections = @ + 1]

handleConnectionClosed(mon, payload) ==
    IF Len(payload) < 1 THEN mon
    ELSE LET d == DecodeConnectionClosed(payload)
         IN  [mon EXCEPT !.cars = ConnectionClosedCars(mon.cars, d.carID),
                         !.totalDisconnections = @ + 1]

\* the fields handleLapCompleted decodes
DecodeLapCompleted(payload) ==
    LET carID == ReadUint(NewReader(payload), 1)
        lapTime == ReadUint(carID.r, 4)
        cuts == ReadUint(lapTime.r, 1)
    IN  [carID |-> carID.v, lapTime |-> lapTime.v, cuts |-> cuts.v]

\* the guard set to the six bytes the handler reads
handleLapCompleted_Short6(mon, payload) ==
    IF Len(payload) < 6 THEN mon
    ELSE [mon EXCEPT !.totalLaps = @ + 1]

\* a lap counted only for a slot that has a record
handleLapCompleted_KnownOnly(mon, payload) ==
    IF Len(payload) < 9 THEN mon
    ELSE IF HasCar(mon.cars, DecodeLapCompleted(payload).carID)
         THEN [mon EXCEPT !.totalLaps = @ + 1]
         ELSE mon

handleLapCompleted(mon, payload) ==
    IF Len(payload) < 9 THEN mon
    ELSE [mon EXCEPT !.totalLaps = @ + 1]

\* the record handleCarInfo builds from the payload
DecodeCarInfo(payload) ==
    LET carID == ReadUint(NewReader(payload), 1)
        isConnected == ReadUint(carID.r, 1)
        carModel == readString(isConnected.r)
        carSkin == readString(carModel.r)
        driverName == readString(carSkin.r)
        driverGUID == readString(driverName.r)
    IN  [CarID |-> carID.v, IsConnected |-> (isConnected.v = 1),
         CarModel |-> carModel.v, CarSkin |-> carSkin.v,
         DriverName |-> driverName.v, DriverGUID |-> driverGUID.v]

\* a merge: an empty text field of the event keeps the stored value
CarInfoCars_Merge(cars, rec) ==
    IF HasCar(cars, rec.CarID)
    THEN LET old == cars[rec.CarID]
             keep(new, prev) == IF new = <<>> THEN prev ELSE new
         IN  PutCar(cars, rec.CarID,
                    [rec EXCEPT !.CarModel = keep(@, old.CarModel),
                                !.CarSkin = keep(@, old.CarSkin),
                                !.DriverName = keep(@, old.DriverName),
                                !.DriverGUID = keep(@, old.DriverGUID)])
    ELSE PutCar(cars, rec.CarID, rec)

\* the record of a slot reported as not connected removed from the map
CarInfoCars_DropDisconnected(cars, rec) ==
    IF rec.IsConnected THEN PutCar(cars, rec.CarID, rec)
    ELSE [k \in DOMAIN cars \ {rec.CarID} |-> cars[k]]

\* lines 280-289: the record of the slot is replaced
CarInfoCars(cars, rec) == PutCar(cars, rec.CarID, rec)

handleCarInfo(mon, payload) ==
    IF Len(payload) < 1 THEN mon
    ELSE [mon EXCEPT !.cars = CarInfoCars(mon.cars, DecodeCarInfo(payload))]

\* the label taken from the four-entry table of the snapshot
SessionTypeName_SnapshotTable(sessionType) ==
    LET sessionTypes == <<"Booking", "Practice", "Qualifying", "Race">>
    IN  IF sessionType < Len(sessionTypes) THEN sessionTypes[sessionType + 1]
        ELSE "Unknown"

\* lines 319-323
SessionTypeName(sessionType) ==
    LET sessionTypes == <<"Practice", "Qualifying", "Race">>
    IN  IF sessionType < Len(sessionTypes) THEN sessionTypes[sessionType + 1]
        ELSE "Unknown"

\* the fields handleSessionInfo decodes and uses
DecodeSessionInfo(payload) ==
    LET version == ReadUint(NewReader(payload), 1)
        sessionIndex == ReadUint(version.r, 1)
        currentSessionIndex == ReadUint(sessionIndex.r, 1)
        sessionCount == ReadUint(currentSessionIndex.r, 1)
        serverName == readString(sessionCount.r)
        sessionType == ReadUint(serverName.r, 1)
        sessionTime == ReadUint(sessionType.r, 2)
        laps == ReadUint(sessionTime.r, 2)
        waitTime == ReadUint(laps.r, 2)
    IN  [serverName |-> serverName.v, sessionType |-> sessionType.v,
         sessionTime |-> sessionTime.v, laps |-> laps.v,
         waitTime |-> waitTime.v]

handleSessionInfo(mon, payload) ==
    IF Len(payload) < 13 THEN mon
    ELSE LET d == DecodeSessionInfo(payload)
         IN  [mon EXCEPT !.serverName = d.serverName,
                         !.sessionType = SessionTypeName(d.sessionType)]

\* the fields handleClientEvent decodes
DecodeClientEvent(payload) ==
    LET carID == ReadUint(NewReader(payload), 1)
        eventType == ReadUint(carID.r, 1)
    IN  [carID |-> carID.v, eventType |-> eventType.v]

\* only the two collision types counted
handleClientEvent_KnownTypes(mon, payload) ==
    IF Len(payload) < 2 THEN mon
    ELSE IF DecodeClientEvent(payload).eventType \in {0, 1}
         THEN [mon EXCEPT !.totalCollisions = @ + 1]
         ELSE mon

handleClientEvent(mon, payload) ==
    IF Len(payload) < 2 THEN mon
    ELSE [mon EXCEPT !.totalCollisions = @ + 1]

\* the fields handleChat decodes
DecodeChat(payload) ==
    LET carID == ReadUint(NewReader(payload), 1)
        message == readString(carID.r)
    IN  [carID |-> carID.v, message |-> message.v]

\* a lookup that adds an empty record for a slot that has none
handleChat_LookupInserts(mon, payload) ==
    IF Len(payload) < 1 THEN mon
    ELSE LET carID == DecodeChat(payload).carID
         IN  IF HasCar(mon.cars, carID) THEN mon
             ELSE [mon EXCEPT !.cars = PutCar(@, carID, ZeroCarInfo)]

\* handleChat only prints
handleChat(mon, payload) == mon

\* the switch of handleMessage
handleMessage(mon, bs) ==
    IF Len(bs) = 0 THEN mon
    ELSE LET msgType == bs[1]
             payload == Tail(bs)
         IN  CASE msgType = ACSP_NEW_SESSION -> handleNewSession(mon, payload)
               [] msgType = ACSP_NEW_CONNECTION ->
                      handleNewConnection(mon, payload)
               [] msgType = ACSP_CONNECTION_CLOSED ->
                      handleConnectionClosed(mon, payload)
               [] msgType = ACSP_LAP_COMPLETED ->
                      handleLapCompleted(mon, payload)
               [] msgType = ACSP_CAR_INFO -> handleCarInfo(mon, payload)
               [] msgType = ACSP_SESSION_INFO ->
                      handleSessionInfo(mon, payload)
               [] msgType = ACSP_CLIENT_EVENT ->
                      handleClientEvent(mon, payload)
               [] msgType = ACSP_CHAT -> handleChat(mon, payload)
               [] OTHER -> mon

---------------------------------------------------------------------------
(* The datagrams of the model: frames as the server encodes them, every    *)
(* proper prefix of one frame of each kind, and frames whose text field    *)
(* declares more bytes than follow.                                        *)

Str(t) == <<Len(t)>> \o t
U16(v) == <<v % 256, v \div 256>>
U32(v) == <<v % 256, (v \div 256) % 256, (v \div 65536) % 256, v \div 16777216>>

EncNewSession(v) ==
    <<ACSP_NEW_SESSION, v.version, v.sessionIndex, v.currentSessionIndex,
      v.sessionCount>> \o Str(v.serverName) \o Str(v.track) \o Str(v.trackConfig)
EncNewConnection(v) ==
    <<ACSP_NEW_CONNECTION>> \o Str(v.driverName) \o Str(v.driverGUID)
        \o <<v.carID, v.carModel, v.carSkin>>
EncConnectionClosed(v) ==
    <<ACSP_CONNECTION_CLOSED>> \o Str(v.driverName) \o <<v.carID>>
EncLapCompleted(v) ==
    <<ACSP_LAP_COMPLETED, v.carID>> \o U32(v.lapTime) \o <<v.cuts>> \o v.rest
EncCarInfo(v) ==
    <<ACSP_CAR_INFO, v.carID, v.isConnected>> \o Str(v.carModel)
        \o Str(v.carSkin) \o Str(v.driverName) \o Str(v.driverGUID)
EncSessionInfo(v) ==
    <<ACSP_SESSION_INFO, v.version, v.sessionIndex, v.currentSessionIndex,
      v.sessionCount>> \o Str(v.serverName) \o <<v.sessionType>>
        \o U16(v.sessionTime) \o U16(v.laps) \o U16(v.waitTime)
        \o Str(v.ambient) \o Str(v.road) \o Str(v.weather) \o Str(v.elapsed)
EncClientEvent(v) == <<ACSP_CLIENT_EVENT, v.carID, v.eventType>> \o v.rest
EncChat(v) == <<ACSP_CHAT, v.carID>> \o Str(v.message)

Alice == <<65, 108, 105, 99, 101>>
Bob == <<66, 111, 98>>
G1 == <<103, 49>>
G2 == <<103, 50>>
Model1 == <<107, 115>>
Model2 == <<98, 109, 119>>
Skin1 == <<114>>
ServerA == <<83, 49>>
ServerB == <<83, 50>>
Imola == <<105, 109>>
Gp == <<103, 112>>
\* text whose last bytes are zero
BobNul == <<66, 111, 98, 0>>
HiNul == <<104, 105, 0, 0>>

NewConnectionVals ==
    {[driverName |-> Alice, driverGUID |-> G1, carID |-> 3, carModel |-> 5, carSkin |-> 0],
     [driverName |-> Bob, driverGUID |-> G2, carID |-> 3, carModel |-> 1, carSkin |-> 1],
     [driverName |-> Bob, driverGUID |-> G2, carID |-> 0, carModel |-> 1, carSkin |-> 1]}
ConnectionClosedVals ==
    {[driverName |-> Alice, carID |-> 3], [driverName |-> Bob, carID |-> 0],
     [driverName |-> Alice, carID |-> 7], [driverName |-> BobNul, carID |-> 7]}
LapCompletedVals ==
    {[carID |-> 3, lapTime |-> 83456, cuts |-> 1, rest |-> <<0, 0, 0, 128, 63>>],
     [carID |-> 7, lapTime |-> 0, cuts |-> 0, rest |-> <<0, 0, 0>>]}
CarInfoVals ==
    {[carID |-> 3, isConnected |-> 1, carModel |-> Model1, carSkin |-> Skin1,
      driverName |-> Alice, driverGUID |-> G1],
     [carID |-> 3, isConnected |-> 0, carModel |-> Model2, carSkin |-> <<>>,
      driverName |-> <<>>, driverGUID |-> <<>>],
     [carID |-> 0, isConnected |-> 1, carModel |-> Model2, carSkin |-> Skin1,
      driverName |-> Bob, driverGUID |-> G2]}
NewSessionVals ==
    {[version |-> 4, sessionIndex |-> 0, currentSessionIndex |-> 0,
      sessionCount |-> 2, serverName |-> ServerA, track |-> Imola,
      trackConfig |-> Gp],
     [version |-> 4, sessionIndex |-> 1, currentSessionIndex |-> 1,
      sessionCount |-> 2, serverName |-> ServerB, track |-> Gp,
      trackConfig |-> <<>>]}
SessionInfoVals ==
    {[version |-> 4, sessionIndex |-> 0, currentSessionIndex |-> 0,
      sessionCount |-> 2, serverName |-> sn, sessionType |-> ty,
      sessionTime |-> 30, laps |-> 0, waitTime |-> 300, ambient |-> <<50>>,
      road |-> <<51>>, weather |-> <<99>>, elapsed |-> <<48>>]
        : sn \in {ServerA}, ty \in {0, 1, 2, 3, 255}}
ClientEventVals ==
    {[carID |-> 3, eventType |-> 0, rest |-> <<>>],
     [carID |-> 3, eventType |-> 1, rest |-> <<0>>],
     [carID |-> 7, eventType |-> 9, rest |-> <<>>]}
ChatVals ==
    {[carID |-> 3, message |-> <<104, 105>>], [carID |-> 7, message |-> HiNul]}

ValidFrames ==
    {EncNewSession(v) : v \in NewSessionVals}
      \cup {EncNewConnection(v) : v \in NewConnectionVals}
      \cup {EncConnectionClosed(v) : v \in ConnectionClosedVals}
      \cup {EncLapCompleted(v) : v \in LapCompletedVals}
      \cup {EncCarInfo(v) : v \in CarInfoVals}
      \cup {EncSessionInfo(v) : v \in SessionInfoVals}
      \cup {EncClientEvent(v) : v \in ClientEventVals}
      \cup {EncChat(v) : v \in ChatVals}

\* one frame of each kind, of which every proper prefix is a datagram too
TruncatedOf ==
    {EncNewSession(CHOOSE v \in NewSessionVals : v.serverName = ServerA),
     EncNewConnection(CHOOSE v \in NewConnectionVals : v.driverName = Alice),
     EncConnectionClosed(CHOOSE v \in ConnectionClosedVals : v.carID = 3),
     EncLapCompleted(CHOOSE v \in LapCompletedVals : v.carID = 3),
     EncCarInfo(CHOOSE v \in CarInfoVals : v.driverName = Alice),
     EncSessionInfo(CHOOSE v \in SessionInfoVals : v.sessionType = 2),
     EncClientEvent(CHOOSE v \in ClientEventVals : v.eventType = 1),
     EncChat(CHOOSE v \in ChatVals : v.carID = 3)}

ProperPrefixes(f) == {SubSeq(f, 1, n) : n \in 1..(Len(f) - 1)}

TruncatedFrames == UNION {ProperPrefixes(f) : f \in TruncatedOf}

\* a text field declaring more bytes than the datagram still holds
OverlongFrames ==
    {<<ACSP_NEW_CONNECTION, 200, 65, 108>>,
     <<ACSP_CONNECTION_CLOSED, 9, 66, 111, 98>>,
     <<ACSP_CAR_INFO, 3, 1, 2, 107, 115, 40, 114>>,
     <<ACSP_NEW_SESSION, 4, 0, 0, 1, 2, 83, 49, 7, 105, 109>>,
     <<ACSP_CHAT, 3, 5, 104>>}

\* kinds the switch of handleMessage has no case for
OtherFrames ==
    {<<ACSP_ERROR>>, <<ACSP_CLIENT_LOADED, 3>>, <<ACSP_VERSION, 4>>, <<13, 1>>}

Frames == ValidFrames \cup TruncatedFrames \cup OverlongFrames \cup OtherFrames

HandledKinds ==
    {ACSP_NEW_SESSION, ACSP_NEW_CONNECTION, ACSP_CONNECTION_CLOSED,
     ACSP_LAP_COMPLETED, ACSP_CAR_INFO, ACSP_SESSION_INFO, ACSP_CLIENT_EVENT,
     ACSP_CHAT}

---------------------------------------------------------------------------
(* sync.RWMutex, and the tasks that run beside the decode task *)

NoTask == "none"
Unlocked == [w |-> NoTask, r |-> {}]

\* Lock() returns when no task holds the mutex in either way
CanLock(l) == l.w = NoTask /\ l.r = {}
Lock(l, t) == [l EXCEPT !.w = t]
Unlock(l) == [l EXCEPT !.w = NoTask]

\* RLock() returns when no task holds the mutex exclusively
CanRLock(l) == l.w = NoTask
RLock(l, t) == [l EXCEPT !.r = @ \cup {t}]
RUnlock(l, t) == [l EXCEPT !.r = @ \ {t}]

\* the poll task, the task serving metrics requests, a task calling
\* GetConnectedCount
Workers == {"poll", "http", "query"}

NoLocals ==
    [resp |-> Nil, i |-> 0, info |-> Nil, labels |-> Nil, gauges |-> Nil, lines |-> <<>>,
     counters |-> Nil, count |-> 0]

---------------------------------------------------------------------------
(* The decode loop *)

\* the least payload length each handler goes on with
MinPayload(kind) ==
    CASE kind = ACSP_NEW_SESSION -> 4
      [] kind = ACSP_LAP_COMPLETED -> 9
      [] kind = ACSP_SESSION_INFO -> 13
      [] kind = ACSP_CLIENT_EVENT -> 2
      [] OTHER -> 1

\* a datagram of a handled kind that its handler does not discard as short
Accepted(f) ==
    /\ Len(f) > 0
    /\ f[1] \in HandledKinds
    /\ Len(f) - 1 >= MinPayload(f[1])

Init ==
    /\ m = NewACServerMonitor
    /\ data = <<>>
    /\ nframes = 0
    /\ recvErrors = <<>>
    /\ events = [k \in HandledKinds |-> 0]
    /\ resp = Nil
    /\ fetchErr = FALSE
    /\ succeeded = FALSE
    /\ nfetch = 0
    /\ metrics = Nil
    /\ printed = Nil
    /\ sent = <<>>
    /\ mu = Unlocked
    /\ metricsLock = Unlocked
    /\ prog = <<>>
    /\ pc = [t \in Workers |-> "idle"]
    /\ loc = [t \in Workers |-> NoLocals]
    /\ runs = [t \in Workers |-> 0]
    /\ stable = <<>>

\* handleNewConnection and handleConnectionClosed count the event in a
\* critical section of its own, taken once the roster section is released
\* (lines 202-204, 225-227): the counter of that second section
LateCounter(bs) ==
    IF Len(bs) = 0 THEN <<>>
    ELSE CASE bs[1] = ACSP_NEW_CONNECTION -> <<"totalConnections">>
           [] bs[1] = ACSP_CONNECTION_CLOSED -> <<"totalDisconnections">>
           [] OTHER -> <<>>

\* the monitor the handler leaves at after, when counter c is yet to be
\* incremented
Uncounted(before, after, c) ==
    IF c # <<>> /\ after[c[1]] # before[c[1]]
    THEN [after EXCEPT ![c[1]] = before[c[1]]]
    ELSE after

\* the steps the handler has still to take then
Pending(before, after, c) ==
    IF c # <<>> /\ after[c[1]] # before[c[1]] THEN << <<"inc", c[1]>> >> ELSE <<>>

\* Listen: ReadFromUDP gives datagram f (n > 0) and handleMessage(buffer[:n])
\* runs up to the point where no mutex is held: to its end, or, for a
\* connection or a disconnection that is counted, to the release of m.mu,
\* the count being left to a step of its own
Receive(f) ==
    /\ prog = <<>>
    /\ data' = f
    /\ nframes' = nframes + 1
    /\ \E after \in {handleMessage(m, f)} :
          /\ m' = Uncounted(m, after, LateCounter(f))
          /\ prog' = Pending(m, after, LateCounter(f))
    /\ events' = IF Accepted(f) THEN [events EXCEPT ![f[1]] = @ + 1] ELSE events
    /\ UNCHANGED <<recvErrors, resp, fetchErr, nfetch, succeeded, metrics, printed, sent>>
    /\ stable' = m'.cars
    /\ UNCHANGED <<mu, metricsLock, pc, loc, runs>>

\* lines 202-204, 225-227: the handler counts the event and returns
CountEvent ==
    /\ prog # <<>>
    /\ Head(prog)[1] = "inc"
    /\ m' = [m EXCEPT ![Head(prog)[2]] = @ + 1]
    /\ prog' = Tail(prog)
    /\ UNCHANGED <<data, nframes, recvErrors, events, resp, fetchErr, nfetch,
                   succeeded, metrics, printed, sent>>
    /\ UNCHANGED <<mu, metricsLock, pc, loc, runs, stable>>

Deliver(f) == nframes < MaxFrames /\ Receive(f)

RecvNewSession == \E f \in Frames : f[1] = ACSP_NEW_SESSION /\ Deliver(f)
RecvNewConnection == \E f \in Frames : f[1] = ACSP_NEW_CONNECTION /\ Deliver(f)
RecvConnectionClosed == \E f \in Frames : f[1] = ACSP_CONNECTION_CLOSED /\ Deliver(f)
RecvLapCompleted == \E f \in Frames : f[1] = ACSP_LAP_COMPLETED /\ Deliver(f)
RecvCarInfo == \E f \in Frames : f[1] = ACSP_CAR_INFO /\ Deliver(f)
RecvSessionInfo == \E f \in Frames : f[1] = ACSP_SESSION_INFO /\ Deliver(f)
RecvClientEvent == \E f \in Frames : f[1] = ACSP_CLIENT_EVENT /\ Deliver(f)
RecvChat == \E f \in Frames : f[1] = ACSP_CHAT /\ Deliver(f)
RecvOther == \E f \in Frames : f[1] \notin HandledKinds /\ Deliver(f)

Next ==
    \/ RecvNewSession
    \/ RecvNewConnection
    \/ RecvConnectionClosed
    \/ RecvLapCompleted
    \/ RecvCarInfo
    \/ RecvSessionInfo
    \/ RecvClientEvent
    \/ RecvChat
    \/ RecvOther
    \/ CountEvent

Spec == Init /\ [][Next]_vars

\* a receive error that is taken for the end of the connection: every record
\* is marked as not connected
RecvError_Disconnects ==
    /\ prog = <<>>
    /\ Len(recvErrors) < MaxRecvErrors
    /\ recvErrors' = Append(recvErrors, nframes)
    /\ m' = [m EXCEPT !.cars = [k \in DOMAIN @ |-> [@[k] EXCEPT !.IsConnected = FALSE]]]
    /\ UNCHANGED <<data, nframes, events, resp, fetchErr, nfetch, succeeded,
                   metrics, printed, sent>>
    /\ UNCHANGED concVars

\* Listen: ReadFromUDP returns an error; it is logged and the loop goes on
\* to the next receive
RecvError ==
    /\ prog = <<>>
    /\ Len(recvErrors) < MaxRecvErrors
    /\ recvErrors' = Append(recvErrors, nframes)
    /\ UNCHANGED <<m, data, nframes, events, resp, fetchErr, nfetch, succeeded,
                   metrics, printed, sent>>
    /\ UNCHANGED concVars

\* the datagrams of the decode loop with receive errors: a whole frame of
\* each kind and the kinds that have no handler
ListenFrames == TruncatedOf \cup OtherFrames

RecvDatagram == \E f \in ListenFrames : Deliver(f)

\* the decode loop with receive errors
NextListen == RecvDatagram \/ RecvError \/ CountEvent

SpecListen == Init /\ [][NextListen]_vars

---------------------------------------------------------------------------
(* The snapshot fetch, the poll cycle and the metrics handler *)

\* ServerInfo{}: the fields at their zero values
ZeroServerInfo ==
    [Cars |-> <<>>,
     Clients |-> 0,
     Track |-> <<>>,
     Name |-> <<>>,
     MaxClients |-> 0,
     Port |-> 0,
     PickupMode |-> FALSE,
     Session |-> 0,
     SessionTypes |-> <<>>,
     Country |-> <<>>,
     Pass |-> FALSE,
     Timestamp |-> 0,
     TimeLeft |-> 0,
     TimeOfDay |-> 0,
     PoweredBy |-> <<>>]

\* the json tags of the fields, as the bytes of their text: cars, clients,
\* track, name, maxclients, port, pickup, session, sessiontypes, country,
\* pass, timestamp, timeleft, timeofday, poweredBy
JsonTag ==
    [Cars |-> <<99, 97, 114, 115>>,
     Clients |-> <<99, 108, 105, 101, 110, 116, 115>>,
     Track |-> <<116, 114, 97, 99, 107>>,
     Name |-> <<110, 97, 109, 101>>,
     MaxClients |-> <<109, 97, 120, 99, 108, 105, 101, 110, 116, 115>>,
     Port |-> <<112, 111, 114, 116>>,
     PickupMode |-> <<112, 105, 99, 107, 117, 112>>,
     Session |-> <<115, 101, 115, 115, 105, 111, 110>>,
     SessionTypes |-> <<115, 101, 115, 115, 105, 111, 110, 116, 121, 112, 101, 115>>,
     Country |-> <<99, 111, 117, 110, 116, 114, 121>>,
     Pass |-> <<112, 97, 115, 115>>,
     Timestamp |-> <<116, 105, 109, 101, 115, 116, 97, 109, 112>>,
     TimeLeft |-> <<116, 105, 109, 101, 108, 101, 102, 116>>,
     TimeOfDay |-> <<116, 105, 109, 101, 111, 102, 100, 97, 121>>,
     PoweredBy |-> <<112, 111, 119, 101, 114, 101, 100, 66, 121>>]

\* the Go types of the fields: []string, int, string, bool, []int
FieldKind ==
    [Cars |-> "strings",
     Clients |-> "int",
     Track |-> "string",
     Name |-> "string",
     MaxClients |-> "int",
     Port |-> "int",
     PickupMode |-> "bool",
     Session |-> "int",
     SessionTypes |-> "ints",
     Country |-> "strings",
     Pass |-> "bool",
     Timestamp |-> "int",
     TimeLeft |-> "int",
     TimeOfDay |-> "int",
     PoweredBy |-> "string"]

\* the values of a JSON text
JStr(t) == [t |-> "string", v |-> t]
JNum(n) == [t |-> "number", v |-> n]
JBool(x) == [t |-> "bool", v |-> x]
JArr(vs) == [t |-> "array", v |-> vs]
JNull == [t |-> "null"]
\* a number that is no integer literal, such as 1.5
JReal == [t |-> "real"]

\* encoding/json matches a key to a field by its tag, or else without regard
\* to case: letters fold to one case, and so do the Kelvin sign to k and the
\* long s to s
RECURSIVE FoldName(_)
FoldName(k) ==
    IF k = <<>> THEN <<>>
    ELSE IF Len(k) >= 2 /\ k[1] = 197 /\ k[2] = 191
         THEN <<115>> \o FoldName(SubSeq(k, 3, Len(k)))
    ELSE IF Len(k) >= 3 /\ k[1] = 226 /\ k[2] = 132 /\ k[3] = 170
         THEN <<107>> \o FoldName(SubSeq(k, 4, Len(k)))
    ELSE <<IF k[1] \in 65..90 THEN k[1] + 32 ELSE k[1]>> \o FoldName(Tail(k))

\* the field a key is stored in, if any: the exact match is preferred
FieldOf(key) ==
    LET exact == {f \in DOMAIN JsonTag : JsonTag[f] = key}
        folded == {f \in DOMAIN JsonTag : FoldName(JsonTag[f]) = FoldName(key)}
    IN  IF exact # {} THEN exact ELSE folded

\* one value stored into a string, an int or a bool that holds old: null
\* leaves it as it is; a value of another type, an array among them, is an
\* error and leaves it as it is
DecodeLiteral(kind, val, old) ==
    CASE val.t = "string" /\ kind = "string" -> [ok |-> TRUE, v |-> val.v]
      [] val.t = "number" /\ kind = "int" -> [ok |-> TRUE, v |-> val.v]
      [] val.t = "bool" /\ kind = "bool" -> [ok |-> TRUE, v |-> val.v]
      [] val.t = "null" -> [ok |-> TRUE, v |-> old]
      [] OTHER -> [ok |-> FALSE, v |-> old]

\* one value decoded into a field of the given type that holds old; spare
\* is what the backing array of a slice holds past its length.  A string,
\* an int or a bool takes a literal.  For a slice, null stores the nil
\* slice and [] a new empty slice; any other value than an array is an
\* error and leaves the field as it is.  The elements of an array are
\* decoded each into the element of the backing array at its index: an
\* element the slice holds already, or one the backing array kept from an
\* earlier and longer value, is decoded into as it is, past the end of the
\* backing array the element is a zero value; then the slice is cut to the
\* number of elements of the array.
DecodeValue(kind, val, old, spare) ==
    IF kind \notin {"strings", "ints"}
    THEN [ok |-> DecodeLiteral(kind, val, old).ok,
          v |-> DecodeLiteral(kind, val, old).v,
          spare |-> <<>>]
    ELSE IF val.t = "null" \/ (val.t = "array" /\ val.v = <<>>)
    THEN [ok |-> TRUE, v |-> <<>>, spare |-> <<>>]
    ELSE IF val.t = "array"
    THEN LET elem(i) ==
                 DecodeLiteral(IF kind = "strings" THEN "string" ELSE "int",
                               val.v[i],
                               IF i <= Len(old) THEN old[i]
                               ELSE IF i <= Len(old) + Len(spare)
                                    THEN spare[i - Len(old)]
                               ELSE IF kind = "strings" THEN <<>> ELSE 0)
         IN  [ok |-> \A i \in 1..Len(val.v) : elem(i).ok,
              v |-> [i \in 1..Len(val.v) |-> elem(i).v],
              spare |-> SubSeq(old \o spare, Len(val.v) + 1,
                               Len(old) + Len(spare))]
    ELSE [ok |-> FALSE, v |-> old, spare |-> spare]

\* one key-value pair decoded into the record: an unknown key is skipped,
\* a pair for a field decoded before is decoded into what that one left,
\* an error is kept
DecodePair(pair, acc) ==
    IF FieldOf(pair[1]) = {} THEN acc
    ELSE LET f == CHOOSE x \in FieldOf(pair[1]) : TRUE
             d == DecodeValue(FieldKind[f], pair[2], acc.info[f], acc.spare[f])
         IN  [err |-> acc.err \/ ~d.ok,
              info |-> [acc.info EXCEPT ![f] = d.v],
              spare |-> [acc.spare EXCEPT ![f] = d.spare]]

\* the key-value pairs of an object decoded in their order, and the
\* decoding goes on after an error; next is the record after the first pair
RECURSIVE DecodeObject(_, _)
DecodeObject(pairs, acc) ==
    IF pairs = <<>> THEN acc
    ELSE CHOOSE r \in {DecodeObject(Tail(pairs), next) :
                          next \in {DecodePair(Head(pairs), acc)}} : TRUE

\* json.Unmarshal(body, &info): a body that is no JSON text fails before
\* anything is stored; null stores nothing and is no error; any value other
\* than an object is an error; an object is decoded pair by pair into the
\* zero record, in which no slice has a backing array
Unmarshal(body) ==
    CASE body.json = "object" ->
            LET u == DecodeObject(body.obj,
                                  [err |-> FALSE, info |-> ZeroServerInfo,
                                   spare |-> [f \in DOMAIN FieldKind |-> <<>>]])
            IN  [err |-> u.err, info |-> u.info]
      [] body.json = "null" -> [err |-> FALSE, info |-> ZeroServerInfo]
      [] OTHER -> [err |-> TRUE, info |-> ZeroServerInfo]

\* a response on which FetchHTTPInfo returns nil: it came, its body was read
\* and the body parsed
OkResponse(r) == ~r.getErr /\ ~r.readErr /\ ~Unmarshal(r.body).err

\* a fetch that failed: no connection or a timeout, an HTTP error response,
\* a body that cannot be read or parsed
FailedResponse(r) ==
    r.getErr \/ r.readErr \/ r.status >= 400 \/ Unmarshal(r.body).err

\* FetchHTTPInfo on response r: client.Get fails (no connection, timeout),
\* or reading the body fails, or the body does not parse, or the record is
\* replaced; the status code of the response is not looked at
FetchHTTPInfo(mon, r) ==
    IF r.getErr THEN [m |-> mon, err |-> TRUE]
    ELSE IF r.readErr THEN [m |-> mon, err |-> TRUE]
    ELSE LET u == Unmarshal(r.body)
         IN  IF u.err THEN [m |-> mon, err |-> TRUE]
             ELSE [m |-> [mon EXCEPT !.serverInfo = u.info], err |-> FALSE]

\* strings.ReplaceAll of one byte by a byte sequence
RECURSIVE ReplaceAll(_, _, _)
ReplaceAll(t, old, new) ==
    IF t = <<>> THEN <<>>
    ELSE (IF t[1] = old THEN new ELSE <<t[1]>>) \o ReplaceAll(Tail(t), old, new)

escapeLabelValue(t) ==
    ReplaceAll(ReplaceAll(ReplaceAll(t, 92, <<92, 92>>), 34, <<92, 34>>),
               10, <<92, 110>>)

\* lines 67-70: the label set of the gauges
GaugeLabels(info) ==
    [server_name |-> escapeLabelValue(info.Name),
     track |-> escapeLabelValue(info.Track),
     powered_by |-> escapeLabelValue(info.PoweredBy)]

\* lines 72-89: the gauge lines, each with the label set
GaugeValues(info, labels) ==
    [up |-> 1, labels |-> labels,
     players |-> info.Clients, max_players |-> info.MaxClients,
     session |-> info.Session, cars_available |-> Len(info.Cars),
     password_protected |-> IF info.Pass THEN 1 ELSE 0,
     pickup_mode |-> IF info.PickupMode THEN 1 ELSE 0,
     time_left |-> info.TimeLeft]

\* the gauge lines PrometheusHandler writes for snapshot record info
Gauges(info) ==
    IF info # Nil THEN GaugeValues(info, GaugeLabels(info))
    ELSE [up |-> 0, players |-> 0, max_players |-> 0]

\* the four counter lines
Counters(mon) ==
    [lap_completed_total |-> mon.totalLaps,
     collisions_total |-> mon.totalCollisions,
     connections_total |-> mon.totalConnections,
     disconnections_total |-> mon.totalDisconnections]

\* the session names of PrintStats; a missing key gives the empty string
SessionName(session) ==
    CASE session = 0 -> "Booking"
      [] session = 1 -> "Practice"
      [] session = 2 -> "Qualifying"
      [] session = 3 -> "Race"
      [] OTHER -> ""

\* the line PrintStats prints, Nil when there is no snapshot record
PrintStats(mon) ==
    IF mon.serverInfo # Nil
    THEN [server |-> mon.serverInfo.Name, track |-> mon.serverInfo.Track,
          mode |-> SessionName(mon.serverInfo.Session),
          players |-> CountConnected(mon.cars, DOMAIN mon.cars),
          max |-> mon.serverInfo.MaxClients]
    ELSE Nil

\* the loop running up to slot 50 inclusive
LoopCondition_Inclusive(i) == i <= 50

\* for i := uint8(0); i < 50; i++: the condition of the request loop
LoopCondition(i) == i < 50

\* the responses of the snapshot source
Payload1 ==
    << <<JsonTag.Cars, JArr(<<JStr(Model1), JStr(Model2)>>)>>,
       <<JsonTag.Clients, JNum(2)>>, <<JsonTag.Track, JStr(Imola)>>,
       <<JsonTag.Name, JStr(ServerA)>>, <<JsonTag.MaxClients, JNum(10)>>,
       <<JsonTag.PickupMode, JBool(TRUE)>>, <<JsonTag.Session, JNum(1)>>,
       <<JsonTag.Pass, JBool(FALSE)>>, <<JsonTag.TimeLeft, JNum(600)>>,
       <<JsonTag.PoweredBy, JStr(<<65, 67>>)>> >>
\* its key pickup_mode_enabled is the tag of no field
Payload2 ==
    << <<JsonTag.Cars, JArr(<<JStr(Model1)>>)>>, <<JsonTag.Clients, JNum(5)>>,
       <<JsonTag.Track, JStr(Gp)>>, <<JsonTag.Name, JStr(<<83, 34, 50>>)>>,
       <<JsonTag.MaxClients, JNum(8)>>,
       <<<<112, 105, 99, 107, 117, 112, 95, 109, 111, 100, 101, 95, 101, 110, 97, 98, 108, 101, 100>>,
         JBool(TRUE)>>,
       <<JsonTag.Session, JNum(3)>>, <<JsonTag.Pass, JBool(TRUE)>>,
       <<JsonTag.TimeLeft, JNum(30)>> >>
Payload3 ==
    << <<JsonTag.Cars, JArr(<<>>)>>, <<JsonTag.Clients, JNum(0)>>,
       <<JsonTag.Track, JStr(Imola)>>, <<JsonTag.Name, JStr(ServerB)>>,
       <<JsonTag.MaxClients, JNum(4)>>, <<JsonTag.Session, JNum(2)>> >>
\* keys that differ from the tags in case, keys given twice, nulls:
\* {"name": "S1", "Name": "S2", "TRACK": "gp", "maxClients": 6,
\*  "trac(Kelvin sign)": "im", "clients": null,
\*  "cars": ["ks", "bmw"], "CARS": [null],
\*  "sessiontypes": [1, 2], "sessiontypes": [null],
\*  "sessiontypes": [null, null, 3]}
Payload4 ==
    << <<JsonTag.Name, JStr(ServerA)>>, <<<<78, 97, 109, 101>>, JStr(ServerB)>>,
       <<<<84, 82, 65, 67, 75>>, JStr(Gp)>>,
       <<<<109, 97, 120, 67, 108, 105, 101, 110, 116, 115>>, JNum(6)>>,
       <<<<116, 114, 97, 99, 226, 132, 170>>, JStr(Imola)>>,
       <<JsonTag.Clients, JNull>>,
       <<JsonTag.Cars, JArr(<<JStr(Model1), JStr(Model2)>>)>>,
       <<<<67, 65, 82, 83>>, JArr(<<JNull>>)>>,
       <<JsonTag.SessionTypes, JArr(<<JNum(1), JNum(2)>>)>>,
       <<JsonTag.SessionTypes, JArr(<<JNull>>)>>,
       <<JsonTag.SessionTypes, JArr(<<JNull, JNull, JNum(3)>>)>> >>
\* values of the wrong type: {"name": "S1", "clients": "2", "session": 1.5}
BadTypes ==
    << <<JsonTag.Name, JStr(ServerA)>>, <<JsonTag.Clients, JStr(<<50>>)>>,
       <<JsonTag.Session, JReal>> >>
\* {"error": "no"}
ErrorObject == << <<<<101, 114, 114, 111, 114>>, JStr(<<110, 111>>)>> >>

NoBody == [json |-> "invalid"]
NullBody == [json |-> "null"]
JsonBody(o) == [json |-> "object", obj |-> o]

Responses ==
    {[getErr |-> TRUE, status |-> 0, readErr |-> FALSE, body |-> NoBody],
     [getErr |-> FALSE, status |-> 200, readErr |-> TRUE, body |-> NoBody],
     [getErr |-> FALSE, status |-> 200, readErr |-> FALSE, body |-> NoBody],
     [getErr |-> FALSE, status |-> 200, readErr |-> FALSE, body |-> JsonBody(Payload1)],
     [getErr |-> FALSE, status |-> 200, readErr |-> FALSE, body |-> JsonBody(Payload2)],
     [getErr |-> FALSE, status |-> 200, readErr |-> FALSE, body |-> JsonBody(Payload3)],
     [getErr |-> FALSE, status |-> 200, readErr |-> FALSE, body |-> JsonBody(Payload4)],
     [getErr |-> FALSE, status |-> 200, readErr |-> FALSE, body |-> JsonBody(BadTypes)],
     [getErr |-> FALSE, status |-> 200, readErr |-> FALSE, body |-> NullBody],
     [getErr |-> FALSE, status |-> 500, readErr |-> FALSE, body |-> NoBody],
     [getErr |-> FALSE, status |-> 404, readErr |-> FALSE, body |-> JsonBody(ErrorObject)]}

\* the datagrams of the snapshot specification
SnapFrames ==
    {EncLapCompleted(CHOOSE v \in LapCompletedVals : v.carID = 3)}
      \cup {EncSessionInfo(v) : v \in SessionInfoVals}

---------------------------------------------------------------------------
(* The tasks step by step.  Every acquisition and release of a mutex and   *)
(* every access to the monitor is a step of its own, so the decode task,   *)
(* the poll task, the metrics handler and a caller of GetConnectedCount    *)
(* interleave as the scheduler allows.                                     *)

\* the counter incremented before the roster is updated
Sections_CounterFirst(roster, counter) == counter \o roster

\* handleNewConnection, handleConnectionClosed: the critical section of the
\* roster, then the critical section of the counter
Sections(roster, counter) == roster \o counter

\* the steps the handler of a datagram takes once it has decoded the payload
Program(bs) ==
    IF Len(bs) = 0 THEN <<>>
    ELSE LET msgType == bs[1]
             payload == Tail(bs)
             n == Len(payload)
             lookup(carID) == << <<"RLock">>, <<"lookup", carID>>, <<"RUnlock">> >>
             count(counter) ==
                 << <<"metricsLock.Lock">>, <<"inc", counter>>,
                    <<"metricsLock.Unlock">> >>
             print == << <<"print">> >>
         IN  CASE msgType = ACSP_NEW_SESSION /\ n >= 4 ->
                    LET d == DecodeNewSession(payload)
                    IN  << <<"Lock">>, <<"set", "serverName", d.serverName>>,
                           <<"set", "trackName", d.trackName>>, <<"Unlock">> >>
                            \o print
               [] msgType = ACSP_NEW_CONNECTION /\ n >= 1 ->
                    LET d == DecodeNewConnection(payload)
                    IN  Sections(
                           << <<"Lock">>, <<"new", d.carID>>,
                              <<"car", d.carID, "CarID", d.carID>>,
                              <<"car", d.carID, "IsConnected", TRUE>>,
                              <<"car", d.carID, "DriverName", d.driverName>>,
                              <<"car", d.carID, "DriverGUID", d.driverGUID>>,
                              <<"Unlock">> >>,
                           count("totalConnections")) \o print
               [] msgType = ACSP_CONNECTION_CLOSED /\ n >= 1 ->
                    LET d == DecodeConnectionClosed(payload)
                    IN  Sections(
                           << <<"Lock">>, <<"closed", d.carID>>,
                              <<"Unlock">> >>,
                           count("totalDisconnections")) \o print
               [] msgType = ACSP_LAP_COMPLETED /\ n >= 9 ->
                    count("totalLaps")
                        \o lookup(DecodeLapCompleted(payload).carID) \o print
               [] msgType = ACSP_CAR_INFO /\ n >= 1 ->
                    << <<"Lock">>, <<"put", DecodeCarInfo(payload)>>,
                       <<"Unlock">> >>
               [] msgType = ACSP_SESSION_INFO /\ n >= 13 ->
                    LET d == DecodeSessionInfo(payload)
                    IN  << <<"Lock">>, <<"set", "serverName", d.serverName>>,
                           <<"set", "sessionType",
                             SessionTypeName(d.sessionType)>>,
                           <<"Unlock">> >>
               [] msgType = ACSP_CLIENT_EVENT /\ n >= 2 ->
                    count("totalCollisions") \o lookup(payload[1]) \o print
               [] msgType = ACSP_CHAT /\ n >= 1 -> lookup(payload[1]) \o print
               [] OTHER -> <<>>

\* one write of a handler to the monitor
Write(mon, op) ==
    CASE op[1] = "set" -> [mon EXCEPT ![op[2]] = op[3]]
      [] op[1] = "new" ->
            IF HasCar(mon.cars, op[2]) THEN mon
            ELSE [mon EXCEPT !.cars = PutCar(@, op[2], ZeroCarInfo)]
      [] op[1] = "car" -> [mon EXCEPT !.cars[op[2]][op[3]] = op[4]]
      [] op[1] = "closed" ->
            [mon EXCEPT !.cars = ConnectionClosedCars(@, op[2])]
      [] op[1] = "put" -> [mon EXCEPT !.cars = CarInfoCars(@, op[2])]
      [] op[1] = "inc" -> [mon EXCEPT ![op[2]] = @ + 1]

ConcFrames ==
    {EncNewConnection(CHOOSE v \in NewConnectionVals :
                          v.driverName = Alice),
     EncConnectionClosed(CHOOSE v \in ConnectionClosedVals : v.carID = 3),
     EncCarInfo(CHOOSE v \in CarInfoVals : v.carModel = Model2 /\ v.carID = 3),
     EncLapCompleted(CHOOSE v \in LapCompletedVals : v.carID = 3),
     EncNewSession(CHOOSE v \in NewSessionVals : v.serverName = ServerA)}

ConcResponses ==
    {r \in Responses :
        r.getErr \/ (/\ r.status = 200 /\ ~r.readErr
                     /\ r.body \in {JsonBody(Payload1), JsonBody(Payload2)})}

\* the number of poll cycles, metrics requests and queries started so far
Started == runs["poll"] + runs["http"] + runs["query"]

\* the step the decode task takes next
At(kinds) == prog # <<>> /\ Head(prog)[1] \in kinds

\* datagram f read from the socket: its handler has decoded the payload
Decoded(f) ==
    /\ data' = f
    /\ prog' = Program(f)
    /\ events' = IF Accepted(f) THEN [events EXCEPT ![f[1]] = @ + 1] ELSE events
    /\ nframes' = nframes + 1
    /\ UNCHANGED <<m, recvErrors, resp, fetchErr, nfetch, succeeded, metrics, printed,
                   sent>>
    /\ UNCHANGED <<mu, metricsLock, pc, loc, runs, stable>>

\* Listen: a datagram arrives and its handler decodes it
ListenReceive ==
    /\ prog = <<>>
    /\ nframes + Started < MaxConcEvents
    /\ \E f \in ConcFrames : Decoded(f)

ListenLock ==
    /\ At({"Lock"})
    /\ CanLock(mu)
    /\ mu' = Lock(mu, "listen")
    /\ prog' = Tail(prog)
    /\ UNCHANGED <<seqVars, metricsLock, pc, loc, runs, stable>>

ListenWrite ==
    /\ At({"set", "new", "car", "closed", "put"})
    /\ m' = Write(m, Head(prog))
    /\ prog' = Tail(prog)
    /\ UNCHANGED <<data, nframes, recvErrors, events, resp, fetchErr, nfetch, succeeded, metrics,
                   printed, sent>>
    /\ UNCHANGED <<mu, metricsLock, pc, loc, runs, stable>>

\* the release deferred to the end of the handler
ListenUnlock_Deferred ==
    /\ At({"Unlock"})
    /\ IF Len(prog) = 1
       THEN mu' = Unlock(mu) /\ stable' = m.cars /\ prog' = <<>>
       ELSE mu' = mu /\ stable' = stable
            /\ prog' = Append(Tail(prog), <<"Unlock">>)
    /\ UNCHANGED <<seqVars, metricsLock, pc, loc, runs>>

ListenUnlock ==
    /\ At({"Unlock"})
    /\ mu' = Unlock(mu)
    /\ stable' = m.cars
    /\ prog' = Tail(prog)
    /\ UNCHANGED <<seqVars, metricsLock, pc, loc, runs>>

ListenMetricsLock ==
    /\ At({"metricsLock.Lock"})
    /\ CanLock(metricsLock)
    /\ metricsLock' = Lock(metricsLock, "listen")
    /\ prog' = Tail(prog)
    /\ UNCHANGED <<seqVars, mu, pc, loc, runs, stable>>

ListenCount ==
    /\ At({"inc"})
    /\ m' = Write(m, Head(prog))
    /\ prog' = Tail(prog)
    /\ UNCHANGED <<data, nframes, recvErrors, events, resp, fetchErr, nfetch, succeeded, metrics,
                   printed, sent>>
    /\ UNCHANGED <<mu, metricsLock, pc, loc, runs, stable>>

ListenMetricsUnlock ==
    /\ At({"metricsLock.Unlock"})
    /\ metricsLock' = Unlock(metricsLock)
    /\ prog' = Tail(prog)
    /\ UNCHANGED <<seqVars, mu, pc, loc, runs, stable>>

ListenRLock ==
    /\ At({"RLock"})
    /\ CanRLock(mu)
    /\ mu' = RLock(mu, "listen")
    /\ prog' = Tail(prog)
    /\ UNCHANGED <<seqVars, metricsLock, pc, loc, runs, stable>>

ListenLookup ==
    /\ At({"lookup"})
    /\ prog' = Tail(prog)
    /\ UNCHANGED <<seqVars, mu, metricsLock, pc, loc, runs, stable>>

ListenRUnlock ==
    /\ At({"RUnlock"})
    /\ mu' = RUnlock(mu, "listen")
    /\ prog' = Tail(prog)
    /\ UNCHANGED <<seqVars, metricsLock, pc, loc, runs, stable>>

\* the notification line of the handler is printed
ListenPrint ==
    /\ At({"print"})
    /\ prog' = Tail(prog)
    /\ UNCHANGED <<seqVars, mu, metricsLock, pc, loc, runs, stable>>

\* a worker moves on
Goto(t, label) == pc' = [pc EXCEPT ![t] = label]

\* where a worker runs on once FetchHTTPInfo has returned
AfterFetch(t) == IF t = "poll" THEN "send" ELSE "info.RLock"

\* a poll cycle that takes the roster lock before it fetches
PollStart_LockFirst ==
    /\ pc["poll"] = "idle"
    /\ nframes + Started < MaxConcEvents
    /\ CanLock(mu)
    /\ mu' = Lock(mu, "poll")
    /\ runs' = [runs EXCEPT !["poll"] = @ + 1]
    /\ Goto("poll", "fetch")
    /\ UNCHANGED <<seqVars, metricsLock, prog, loc, stable>>

\* a poll cycle and a metrics request begin with a snapshot fetch
PollStart ==
    /\ pc["poll"] = "idle"
    /\ nframes + Started < MaxConcEvents
    /\ runs' = [runs EXCEPT !["poll"] = @ + 1]
    /\ Goto("poll", "fetch")
    /\ UNCHANGED <<seqVars, mu, metricsLock, prog, loc, stable>>

MetricsStart ==
    /\ pc["http"] = "idle"
    /\ nframes + Started < MaxConcEvents
    /\ runs' = [runs EXCEPT !["http"] = @ + 1]
    /\ Goto("http", "fetch")
    /\ UNCHANGED <<seqVars, mu, metricsLock, prog, loc, stable>>

QueryStart ==
    /\ pc["query"] = "idle"
    /\ nframes + Started < MaxConcEvents
    /\ runs' = [runs EXCEPT !["query"] = @ + 1]
    /\ Goto("query", "count.RLock")
    /\ UNCHANGED <<seqVars, mu, metricsLock, prog, loc, stable>>

\* a client without a timeout: the call never returns when the snapshot
\* source does not answer
FetchCall_NoTimeout(t) ==
    /\ pc[t] = "fetch"
    /\ \E r \in ConcResponses :
          LET res == FetchHTTPInfo(m, r)
          IN  /\ resp' = r
              /\ fetchErr' = res.err
              /\ IF r.getErr
                 THEN /\ Goto(t, "fetch.hang")
                      /\ loc' = [loc EXCEPT ![t].resp = r]
                 ELSE /\ Goto(t, "fetch.Lock")
                      /\ loc' = [loc EXCEPT ![t].resp = r,
                                            ![t].info = res.m.serverInfo]
    /\ nfetch' = nfetch + 1
    /\ UNCHANGED <<m, data, nframes, recvErrors, events, succeeded, metrics,
                   printed, sent>>
    /\ UNCHANGED <<mu, metricsLock, prog, runs, stable>>

\* the call of a fetcher that gets response r
Fetched(t, r) ==
    LET res == FetchHTTPInfo(m, r)
    IN  /\ resp' = r
        /\ fetchErr' = res.err
        /\ IF res.err
           THEN /\ Goto(t, AfterFetch(t))
                /\ loc' = [loc EXCEPT ![t].resp = r]
           ELSE /\ Goto(t, "fetch.Lock")
                /\ loc' = [loc EXCEPT ![t].resp = r,
                                      ![t].info = res.m.serverInfo]
        /\ nfetch' = nfetch + 1
        /\ UNCHANGED <<m, data, nframes, recvErrors, events, succeeded, metrics,
                       printed, sent>>
        /\ UNCHANGED <<mu, metricsLock, prog, runs, stable>>

\* FetchHTTPInfo up to the parse: no mutex is held
FetchCall(t) ==
    /\ pc[t] = "fetch"
    /\ \E r \in ConcResponses : Fetched(t, r)

FetchLock(t) ==
    /\ pc[t] = "fetch.Lock"
    /\ CanLock(mu)
    /\ mu' = Lock(mu, t)
    /\ Goto(t, "fetch.store")
    /\ UNCHANGED <<seqVars, metricsLock, prog, loc, runs, stable>>

\* the parsed payload written into the record the monitor holds, a field of
\* zero value leaving the stored field as it is
FetchStore_InPlace(t) ==
    /\ pc[t] = "fetch.store"
    /\ m' = [m EXCEPT !.serverInfo =
                IF @ = Nil THEN loc[t].info
                ELSE [f \in DOMAIN ZeroServerInfo |->
                        IF loc[t].info[f] = ZeroServerInfo[f] THEN @[f]
                        ELSE loc[t].info[f]]]
    /\ succeeded' = (succeeded \/ ~FailedResponse(loc[t].resp))
    /\ Goto(t, "fetch.Unlock")
    /\ UNCHANGED <<data, nframes, recvErrors, events, resp, fetchErr, nfetch,
                   metrics, printed, sent>>
    /\ UNCHANGED <<mu, metricsLock, prog, loc, runs, stable>>

FetchStore(t) ==
    /\ pc[t] = "fetch.store"
    /\ m' = [m EXCEPT !.serverInfo = loc[t].info]
    /\ succeeded' = (succeeded \/ ~FailedResponse(loc[t].resp))
    /\ Goto(t, "fetch.Unlock")
    /\ UNCHANGED <<data, nframes, recvErrors, events, resp, fetchErr, nfetch, metrics,
                   printed, sent>>
    /\ UNCHANGED <<mu, metricsLock, prog, loc, runs, stable>>

FetchUnlock(t) ==
    /\ pc[t] = "fetch.Unlock"
    /\ mu' = Unlock(mu)
    /\ Goto(t, AfterFetch(t))
    /\ UNCHANGED <<seqVars, metricsLock, prog, loc, runs, stable>>

\* GetCurrentStats: one pass of the loop sends the car-info request of slot
\* i, sleeps and increments i, a uint8
PollSend ==
    /\ pc["poll"] = "send"
    /\ LoopCondition(loc["poll"].i)
    /\ sent' = Append(IF loc["poll"].i = 0 THEN <<>> ELSE sent, loc["poll"].i)
    /\ loc' = [loc EXCEPT !["poll"].i = (@ + 1) % 256]
    /\ UNCHANGED <<m, data, nframes, recvErrors, events, resp, fetchErr, nfetch,
                   succeeded, metrics, printed>>
    /\ UNCHANGED <<mu, metricsLock, prog, pc, runs, stable>>

\* the loop is left; the wait for the answers
PollWait ==
    /\ pc["poll"] = "send"
    /\ ~LoopCondition(loc["poll"].i)
    /\ loc' = [loc EXCEPT !["poll"].i = 0]
    /\ Goto("poll", "stats.RLock")
    /\ UNCHANGED <<seqVars, mu, metricsLock, prog, runs, stable>>

\* PrintStats holds the read lock until it returns
StatsRLock ==
    /\ pc["poll"] = "stats.RLock"
    /\ CanRLock(mu)
    /\ mu' = RLock(mu, "poll")
    /\ Goto("poll", "stats.print")
    /\ UNCHANGED <<seqVars, metricsLock, prog, loc, runs, stable>>

StatsPrint ==
    /\ pc["poll"] = "stats.print"
    /\ printed' = PrintStats(m)
    /\ Goto("poll", "stats.RUnlock")
    /\ UNCHANGED <<m, data, nframes, recvErrors, events, resp, fetchErr, nfetch, succeeded, metrics,
                   sent>>
    /\ UNCHANGED <<mu, metricsLock, prog, loc, runs, stable>>

StatsRUnlock ==
    /\ pc["poll"] = "stats.RUnlock"
    /\ mu' = RUnlock(mu, "poll")
    /\ Goto("poll", "idle")
    /\ UNCHANGED <<seqVars, metricsLock, prog, loc, runs, stable>>

\* PrometheusHandler: the snapshot pointer is copied under the read lock
InfoRLock ==
    /\ pc["http"] = "info.RLock"
    /\ CanRLock(mu)
    /\ mu' = RLock(mu, "http")
    /\ Goto("http", "info.read")
    /\ UNCHANGED <<seqVars, metricsLock, prog, loc, runs, stable>>

InfoRead ==
    /\ pc["http"] = "info.read"
    /\ loc' = [loc EXCEPT !["http"].info = m.serverInfo]
    /\ Goto("http", "info.RUnlock")
    /\ UNCHANGED <<seqVars, mu, metricsLock, prog, runs, stable>>

InfoRUnlock ==
    /\ pc["http"] = "info.RUnlock"
    /\ mu' = RUnlock(mu, "http")
    /\ Goto("http", "format")
    /\ UNCHANGED <<seqVars, metricsLock, prog, loc, runs, stable>>

\* the gauges are formatted from the copy once the lock is released: the
\* label set first, or the sentinel lines when the copy is nil
FormatLabels ==
    /\ pc["http"] = "format"
    /\ IF loc["http"].info # Nil
       THEN /\ loc' = [loc EXCEPT
                         !["http"].labels = GaugeLabels(loc["http"].info)]
            /\ Goto("http", "format.values")
       ELSE /\ loc' = [loc EXCEPT !["http"].labels = Nil,
                                  !["http"].gauges = Gauges(Nil)]
            /\ Goto("http", "counters.RLock")
    /\ UNCHANGED <<seqVars, mu, metricsLock, prog, runs, stable>>

\* the gauge lines formatted from the record the monitor holds at that time
FormatValues_Live ==
    /\ pc["http"] = "format.values"
    /\ loc' = [loc EXCEPT !["http"].gauges =
                  GaugeValues(m.serverInfo, loc["http"].labels)]
    /\ Goto("http", "counters.RLock")
    /\ UNCHANGED <<seqVars, mu, metricsLock, prog, runs, stable>>

\* then the gauge lines, from the same copy
FormatValues ==
    /\ pc["http"] = "format.values"
    /\ loc' = [loc EXCEPT !["http"].gauges =
                  GaugeValues(loc["http"].info, loc["http"].labels)]
    /\ Goto("http", "counters.RLock")
    /\ UNCHANGED <<seqVars, mu, metricsLock, prog, runs, stable>>

\* the fields the four counter lines format, in the order they are written
CounterFields ==
    <<"totalLaps", "totalCollisions", "totalConnections",
      "totalDisconnections">>

\* the four counter lines, from the values formatted one after the other
CounterLines(values) ==
    [lap_completed_total |-> values[1],
     collisions_total |-> values[2],
     connections_total |-> values[3],
     disconnections_total |-> values[4]]

\* the counters formatted without the read lock
CountersRLock_NoLock ==
    /\ pc["http"] = "counters.RLock"
    /\ Goto("http", "counters.read")
    /\ UNCHANGED <<seqVars, mu, metricsLock, prog, loc, runs, stable>>

CountersRLock ==
    /\ pc["http"] = "counters.RLock"
    /\ CanRLock(metricsLock)
    /\ metricsLock' = RLock(metricsLock, "http")
    /\ Goto("http", "counters.read")
    /\ UNCHANGED <<seqVars, mu, prog, loc, runs, stable>>

CountersRead ==
    /\ pc["http"] = "counters.read"
    /\ LET read == loc["http"].lines
           values == Append(read, m[CounterFields[Len(read) + 1]])
       IN  IF Len(values) < Len(CounterFields)
           THEN /\ loc' = [loc EXCEPT !["http"].lines = values]
                /\ pc' = pc
           ELSE /\ loc' = [loc EXCEPT !["http"].lines = <<>>,
                                      !["http"].counters = CounterLines(values)]
                /\ Goto("http", "counters.RUnlock")
    /\ UNCHANGED <<seqVars, mu, metricsLock, prog, runs, stable>>

CountersRUnlock ==
    /\ pc["http"] = "counters.RUnlock"
    /\ metricsLock' = RUnlock(metricsLock, "http")
    /\ Goto("http", "write")
    /\ UNCHANGED <<seqVars, mu, prog, loc, runs, stable>>

MetricsWrite ==
    /\ pc["http"] = "write"
    /\ metrics' = [gauges |-> loc["http"].gauges,
                   counters |-> loc["http"].counters]
    /\ Goto("http", "idle")
    /\ UNCHANGED <<m, data, nframes, recvErrors, events, resp, fetchErr, nfetch, succeeded, printed,
                   sent>>
    /\ UNCHANGED <<mu, metricsLock, prog, loc, runs, stable>>

\* the roster read without taking the read lock
CountRLock_NoLock ==
    /\ pc["query"] = "count.RLock"
    /\ Goto("query", "count.read")
    /\ UNCHANGED <<seqVars, mu, metricsLock, prog, loc, runs, stable>>

\* GetConnectedCount called from a task of its own
CountRLock ==
    /\ pc["query"] = "count.RLock"
    /\ CanRLock(mu)
    /\ mu' = RLock(mu, "query")
    /\ Goto("query", "count.read")
    /\ UNCHANGED <<seqVars, metricsLock, prog, loc, runs, stable>>

CountRead ==
    /\ pc["query"] = "count.read"
    /\ loc' = [loc EXCEPT !["query"].count = GetConnectedCount(m)]
    /\ Goto("query", "count.RUnlock")
    /\ UNCHANGED <<seqVars, mu, metricsLock, prog, runs, stable>>

CountRUnlock ==
    /\ pc["query"] = "count.RUnlock"
    /\ mu' = RUnlock(mu, "query")
    /\ Goto("query", "idle")
    /\ UNCHANGED <<seqVars, metricsLock, prog, loc, runs, stable>>

Fetchers == {"poll", "http"}

NextConc ==
    \/ ListenReceive \/ ListenLock \/ ListenWrite \/ ListenUnlock
    \/ ListenMetricsLock \/ ListenCount \/ ListenMetricsUnlock
    \/ ListenRLock \/ ListenLookup \/ ListenRUnlock \/ ListenPrint
    \/ PollStart \/ MetricsStart \/ QueryStart
    \/ \E t \in Fetchers : FetchCall(t)
    \/ \E t \in Fetchers : FetchLock(t)
    \/ \E t \in Fetchers : FetchStore(t)
    \/ \E t \in Fetchers : FetchUnlock(t)
    \/ PollSend \/ PollWait \/ StatsRLock \/ StatsPrint \/ StatsRUnlock
    \/ InfoRLock \/ InfoRead \/ InfoRUnlock \/ FormatLabels \/ FormatValues
    \/ CountersRLock \/ CountersRead \/ CountersRUnlock \/ MetricsWrite
    \/ CountRLock \/ CountRead \/ CountRUnlock

SpecConc == Init /\ [][NextConc]_vars

\* the steps of each task once it has begun: the scheduler runs every task
\* that can take a step, the HTTP client returns within its timeout, and a
\* task blocked on a mutex gets it once it stays free.  No datagram need
\* arrive and no cycle or request need begin.
ListenSteps ==
    \/ ListenLock \/ ListenWrite \/ ListenUnlock
    \/ ListenMetricsLock \/ ListenCount \/ ListenMetricsUnlock
    \/ ListenRLock \/ ListenLookup \/ ListenRUnlock \/ ListenPrint

PollSteps ==
    \/ FetchCall("poll") \/ FetchLock("poll") \/ FetchStore("poll")
    \/ FetchUnlock("poll")
    \/ PollSend \/ PollWait \/ StatsRLock \/ StatsPrint \/ StatsRUnlock

MetricsSteps ==
    \/ FetchCall("http") \/ FetchLock("http") \/ FetchStore("http")
    \/ FetchUnlock("http")
    \/ InfoRLock \/ InfoRead \/ InfoRUnlock \/ FormatLabels \/ FormatValues
    \/ CountersRLock \/ CountersRead \/ CountersRUnlock \/ MetricsWrite

QuerySteps == CountRLock \/ CountRead \/ CountRUnlock

SpecConcLive ==
    /\ SpecConc
    /\ WF_vars(ListenSteps) /\ WF_vars(PollSteps)
    /\ WF_vars(MetricsSteps) /\ WF_vars(QuerySteps)

---------------------------------------------------------------------------
(* Properties of the decode loop, checked under Spec *)

---------------------------------------------------------------------------
(* The decode task, the poll task and the metrics handler step by step,    *)
(* with every answer the snapshot source can give and the session events.  *)

SnapListen ==
    /\ prog = <<>>
    /\ nframes + Started < MaxSnapEvents
    /\ \E f \in SnapFrames : Decoded(f)

SnapPoll ==
    /\ pc["poll"] = "idle"
    /\ nframes + Started < MaxSnapEvents
    /\ runs' = [runs EXCEPT !["poll"] = @ + 1]
    /\ Goto("poll", "fetch")
    /\ UNCHANGED <<seqVars, mu, metricsLock, prog, loc, stable>>

SnapMetrics ==
    /\ pc["http"] = "idle"
    /\ nframes + Started < MaxSnapEvents
    /\ runs' = [runs EXCEPT !["http"] = @ + 1]
    /\ Goto("http", "fetch")
    /\ UNCHANGED <<seqVars, mu, metricsLock, prog, loc, stable>>

SnapFetch(t) ==
    /\ pc[t] = "fetch"
    /\ \E r \in Responses : Fetched(t, r)

NextSnapshot ==
    \/ SnapListen \/ SnapPoll \/ SnapMetrics
    \/ \E t \in Fetchers : SnapFetch(t)
    \/ ListenLock \/ ListenWrite \/ ListenUnlock
    \/ ListenMetricsLock \/ ListenCount \/ ListenMetricsUnlock
    \/ ListenRLock \/ ListenLookup \/ ListenRUnlock \/ ListenPrint
    \/ \E t \in Fetchers : FetchLock(t)
    \/ \E t \in Fetchers : FetchStore(t)
    \/ \E t \in Fetchers : FetchUnlock(t)
    \/ PollSend \/ PollWait \/ StatsRLock \/ StatsPrint \/ StatsRUnlock
    \/ InfoRLock \/ InfoRead \/ InfoRUnlock \/ FormatLabels \/ FormatValues
    \/ CountersRLock \/ CountersRead \/ CountersRUnlock \/ MetricsWrite

SpecSnapshot == Init /\ [][NextSnapshot]_vars


\* the step that receives a datagram and runs its handler
FrameStep == nframes' = nframes + 1

\* the monitor once the counts in p are made
RECURSIVE Settle(_, _)
Settle(mon, p) ==
    IF p = <<>> THEN mon
    ELSE Settle([mon EXCEPT ![Head(p)[2]] = @ + 1], Tail(p))

\* the monitor as the handler of the datagram in data leaves it when it
\* returns: m itself once the handler has returned
Returned == Settle(m, prog)

\* a handler that has not returned takes the step it has left and no other:
\* it leaves the monitor as Returned says
HandlerGoesOn ==
    prog # <<>> => (Returned' = Returned /\ Len(prog') < Len(prog))

ConnectedSlots(cars) == {k \in DOMAIN cars : cars[k].IsConnected}

\* C1: after any sequence of frames the connections counter is the number of
\* new-connection events the handler went on with and the disconnections
\* counter the number of connection-closed events, whatever the roster holds.
C1_CountersEqualEvents ==
    prog = <<>> =>
        /\ m.totalConnections = events[ACSP_NEW_CONNECTION]
        /\ m.totalDisconnections = events[ACSP_CONNECTION_CLOSED]

\* two new-connection events for one slot, the second on a connected record
C1_Witness ==
    /\ prog = <<>>
    /\ m.totalConnections = 2
    /\ Cardinality(DOMAIN m.cars) = 1
    /\ data \in {EncNewConnection(v) : v \in NewConnectionVals}

\* C2 (as claimed): a truncated prefix of a frame, or a frame whose text
\* field declares more bytes than remain, changes nothing of the monitor.
C2_TruncatedChangesNothing ==
    [][(FrameStep /\ data' \in TruncatedFrames \cup OverlongFrames) => m' = m]_vars

\* C3: a frame whose payload is shorter than the minimum of its kind (9 for
\* lap-completed) is discarded: no counter, record or context field changes.
C3_ShortFrameDiscarded ==
    [][(FrameStep /\ Len(data') > 0 /\ data'[1] \in HandledKinds
          /\ Len(data') - 1 < MinPayload(data'[1])) => m' = m]_vars

\* a lap-completed frame of 5 payload bytes received after a connection
C3_Witness ==
    /\ nframes = 2
    /\ data = <<ACSP_LAP_COMPLETED, 3, 0, 70, 1, 0>>
    /\ m.totalConnections = 1
    /\ m.totalLaps = 0

\* C4: the connected-count query gives the number of records whose
\* connection flag is true.
C4_ConnectedCount ==
    GetConnectedCount(m) = Cardinality(ConnectedSlots(m.cars))

\* two records, one of them connected
C4_Witness ==
    /\ Cardinality(DOMAIN m.cars) = 2
    /\ Cardinality(ConnectedSlots(m.cars)) = 1

\* the record a slot-info event carries
CarInfoRecord(v) ==
    [CarID |-> v.carID, IsConnected |-> (v.isConnected = 1),
     CarModel |-> v.carModel, CarSkin |-> v.carSkin,
     DriverName |-> v.driverName, DriverGUID |-> v.driverGUID]

\* only slot s may differ between the two rosters
OthersUnchanged(before, after, s) ==
    /\ DOMAIN after = DOMAIN before \cup {s}
    /\ \A k \in DOMAIN before \ {s} : after[k] = before[k]

\* C5: a slot-info event replaces the whole record of its slot by the values
\* it carries and leaves the records of the other slots alone.
C5_CarInfoReplaces ==
    [][\A v \in CarInfoVals :
         (FrameStep /\ data' = EncCarInfo(v))
            => /\ m'.cars[v.carID] = CarInfoRecord(v)
               /\ OthersUnchanged(m.cars, m'.cars, v.carID)]_vars

\* slot 3, connected as Alice before, after a slot-info event with empty
\* driver fields
C5_Witness ==
    /\ nframes = 2
    /\ m.totalConnections = 1
    /\ DOMAIN m.cars = {3}
    /\ data \in {EncCarInfo(v) : v \in CarInfoVals}
    /\ m.cars[3].DriverName = <<>>
    /\ m.cars[3].CarModel = Model2

\* C6: a connection-closed event for a slot that has a record sets its
\* connection flag to false and changes nothing else of the roster.
C6_ClosedFlipsFlagOnly ==
    [][\A v \in ConnectionClosedVals :
         (FrameStep /\ data' = EncConnectionClosed(v) /\ HasCar(m.cars, v.carID))
            => m'.cars = [m.cars EXCEPT ![v.carID].IsConnected = FALSE]]_vars

\* slot 3 closed after a slot-info event had connected it
C6_Witness ==
    /\ nframes = 2
    /\ data \in {EncConnectionClosed(v) : v \in ConnectionClosedVals}
    /\ HasCar(m.cars, 3)
    /\ ~m.cars[3].IsConnected
    /\ m.cars[3].CarModel = Model1
    /\ m.cars[3].DriverName = Alice

\* C7: a new-connection event sets slot id, connected, driver name and driver
\* id of its slot, keeps car model and skin, and creates the record if absent.
C7_NewConnectionUpserts ==
    [][\A v \in NewConnectionVals :
         (FrameStep /\ data' = EncNewConnection(v))
            => LET old == IF HasCar(m.cars, v.carID) THEN m.cars[v.carID]
                          ELSE ZeroCarInfo
               IN  /\ m'.cars[v.carID] =
                        [CarID |-> v.carID, IsConnected |-> TRUE,
                         DriverName |-> v.driverName,
                         DriverGUID |-> v.driverGUID,
                         CarModel |-> old.CarModel, CarSkin |-> old.CarSkin]
                   /\ OthersUnchanged(m.cars, m'.cars, v.carID)]_vars

\* Bob connects to slot 3, whose car model a slot-info event had written
C7_Witness ==
    /\ nframes = 2
    /\ data \in {EncNewConnection(v) : v \in NewConnectionVals}
    /\ HasCar(m.cars, 3)
    /\ m.cars[3].DriverName = Bob
    /\ m.cars[3].CarModel = Model1
    /\ m.cars[3].CarSkin = Skin1

\* C8: from the empty monitor, a new-connection frame for slot s with name n
\* then a connection-closed frame for s give connected-count 0, the record
\* of s with driver name n, connections 1 and disconnections 1.
C8_ConnectThenClose ==
    /\ [][\A nc \in NewConnectionVals, cc \in ConnectionClosedVals :
         (/\ nframes = 1 /\ data = EncNewConnection(nc) /\ prog = <<>>
          /\ FrameStep /\ data' = EncConnectionClosed(cc)
          /\ cc.carID = nc.carID)
            => /\ GetConnectedCount(Returned') = 0
               /\ HasCar(Returned'.cars, nc.carID)
               /\ Returned'.cars[nc.carID].DriverName = nc.driverName
               /\ Returned'.totalConnections = 1
               /\ Returned'.totalDisconnections = 1
               /\ m'.totalDisconnections = 0]_vars
    /\ [][nframes = 2 => HandlerGoesOn]_vars

\* the state after Alice connected to slot 3 and the slot was closed
C8_Witness ==
    /\ nframes = 2
    /\ prog = <<>>
    /\ data \in {EncConnectionClosed(v) : v \in ConnectionClosedVals}
    /\ m.totalConnections = 1
    /\ m.totalDisconnections = 1
    /\ HasCar(m.cars, 3)
    /\ m.cars[3].DriverName = Alice
    /\ GetConnectedCount(m) = 0

\* the fields a handler decodes from each valid frame are the encoded values,
\* a text field being text(t) for the encoded bytes t
RoundTrip(text(_)) ==
    /\ \A v \in NewSessionVals :
          data = EncNewSession(v)
             => DecodeNewSession(Tail(data)) =
                   [serverName |-> text(v.serverName),
                    trackName |-> text(v.track) \o <<32, 40>>
                                    \o text(v.trackConfig) \o <<41>>]
    /\ \A v \in NewConnectionVals :
          data = EncNewConnection(v)
             => DecodeNewConnection(Tail(data)) =
                   [driverName |-> text(v.driverName),
                    driverGUID |-> text(v.driverGUID), carID |-> v.carID,
                    carModel |-> v.carModel, carSkin |-> v.carSkin]
    /\ \A v \in ConnectionClosedVals :
          data = EncConnectionClosed(v)
             => DecodeConnectionClosed(Tail(data)) =
                   [driverName |-> text(v.driverName), carID |-> v.carID]
    /\ \A v \in LapCompletedVals :
          data = EncLapCompleted(v)
             => DecodeLapCompleted(Tail(data)) =
                   [carID |-> v.carID, lapTime |-> v.lapTime, cuts |-> v.cuts]
    /\ \A v \in CarInfoVals :
          data = EncCarInfo(v)
             => DecodeCarInfo(Tail(data)) =
                   [CarID |-> v.carID, IsConnected |-> (v.isConnected = 1),
                    CarModel |-> text(v.carModel), CarSkin |-> text(v.carSkin),
                    DriverName |-> text(v.driverName),
                    DriverGUID |-> text(v.driverGUID)]
    /\ \A v \in SessionInfoVals :
          data = EncSessionInfo(v)
             => DecodeSessionInfo(Tail(data)) =
                   [serverName |-> text(v.serverName),
                    sessionType |-> v.sessionType,
                    sessionTime |-> v.sessionTime, laps |-> v.laps,
                    waitTime |-> v.waitTime]
    /\ \A v \in ClientEventVals :
          data = EncClientEvent(v)
             => DecodeClientEvent(Tail(data)) =
                   [carID |-> v.carID, eventType |-> v.eventType]
    /\ \A v \in ChatVals :
          data = EncChat(v)
             => DecodeChat(Tail(data)) =
                   [carID |-> v.carID, message |-> text(v.message)]

\* C20 (as claimed): for every valid frame of each kind the decoded fields
\* are exactly the encoded ones: integers read as little-endian values of
\* their width, each text field the bytes that follow its length byte, the
\* next field starting right after them.
C20_DecodeRecoversExactly == RoundTrip(LAMBDA t : t)

\* C20 (amended): the same, except that a text field is decoded as the bytes
\* that follow its length byte with the trailing zero bytes removed.
C20_DecodeRecoversTrimmed == RoundTrip(TrimRightNul)

\* a connection-closed frame whose driver name ends in a zero byte has been
\* decoded: the slot number that follows the name was read in its place
C20_Witness ==
    /\ \E v \in ConnectionClosedVals :
          /\ data = EncConnectionClosed(v)
          /\ v.driverName # TrimRightNul(v.driverName)
          /\ DecodeConnectionClosed(Tail(data)).carID = v.carID
    /\ m.totalDisconnections = 1

\* C24: a client-event frame of at least two payload bytes adds one to the
\* collisions counter, whatever its event type, and changes nothing else of
\* the monitor.
C24_ClientEventCountsCollision ==
    [][(FrameStep /\ data'[1] = ACSP_CLIENT_EVENT /\ Len(data') - 1 >= 2)
          => m' = [m EXCEPT !.totalCollisions = @ + 1]]_vars

\* a client event of type 9 counted after a collision with the environment
C24_Witness ==
    /\ nframes = 2
    /\ \E v \in ClientEventVals : v.eventType = 9 /\ data = EncClientEvent(v)
    /\ m.totalCollisions = 2

\* C25: a lap-completed frame of at least nine payload bytes adds one to the
\* laps counter and changes nothing else of the monitor, whether or not the
\* slot it names has a record.
C25_LapCountsOnce ==
    [][(FrameStep /\ data'[1] = ACSP_LAP_COMPLETED /\ Len(data') - 1 >= 9)
          => m' = [m EXCEPT !.totalLaps = @ + 1]]_vars

\* a lap of slot 7 counted while the roster holds slot 3 only
C25_Witness ==
    /\ nframes = 2
    /\ \E v \in LapCompletedVals : v.carID = 7 /\ data = EncLapCompleted(v)
    /\ DOMAIN m.cars = {3}
    /\ m.totalLaps = 1

\* the kinds whose handler writes to the monitor
StateKinds == HandledKinds \ {ACSP_CHAT}

\* C26: a chat frame, a protocol-version frame, an error frame and a frame
\* of any unknown kind change nothing of the monitor: roster, counters,
\* session context and snapshot record stay as they are.
C26_DisplayOnlyFrames ==
    [][(FrameStep /\ data'[1] \notin StateKinds) => m' = m]_vars

\* a chat frame of slot 7, which has no record, received after a connection
C26_Witness ==
    /\ nframes = 2
    /\ \E v \in ChatVals : v.carID = 7 /\ data = EncChat(v)
    /\ DOMAIN m.cars = {3}
    /\ m.totalConnections = 1

\* C28: a receive error changes nothing of the monitor and does not end the
\* decode loop: after an error the loop can receive again, and a datagram
\* received after an error is decoded and applied like any other.
C28_ReceiveErrorHarmless ==
    /\ [][recvErrors' # recvErrors => m' = m]_vars
    /\ []((recvErrors # <<>> /\ prog = <<>> /\ nframes < MaxFrames)
             => ENABLED RecvDatagram)
    /\ [][(FrameStep /\ recvErrors # <<>>)
            => /\ Returned' = handleMessage(m, data')
               /\ recvErrors' = recvErrors]_vars
    /\ [][recvErrors # <<>> => HandlerGoesOn]_vars

\* Alice connected, a receive error came next, and the connection-closed
\* frame received after the error was applied
C28_Witness ==
    /\ recvErrors = <<1>>
    /\ prog = <<>>
    /\ nframes = 2
    /\ data \in {EncConnectionClosed(v) : v \in ConnectionClosedVals}
    /\ HasCar(m.cars, 3) /\ ~m.cars[3].IsConnected
    /\ m.cars[3].DriverName = Alice
    /\ m.totalDisconnections = 1

\* C32: in every reachable state each participant record stored under key k
\* of the roster has its slot identifier field equal to k.
C32_SlotMatchesKey ==
    \A k \in DOMAIN m.cars : m.cars[k].CarID = k

\* a roster with a record under slot 3 that a new-connection event has just
\* created, after another event stored a record under slot 0
C32_Witness ==
    /\ nframes = 2
    /\ data \in {EncNewConnection(v) : v \in NewConnectionVals}
    /\ DecodeNewConnection(Tail(data)).carID = 3
    /\ DOMAIN m.cars = {0, 3}
    /\ m.cars[3].CarID = 3 /\ m.cars[3].CarModel = <<>>
    /\ m.cars[0].CarID = 0

\* C13: a connection-closed event for a slot without a record creates no
\* record and changes no record; it adds one to the disconnections counter
\* and changes nothing else.
C13_ClosedUnknownSlot ==
    /\ [][\A v \in ConnectionClosedVals :
            (FrameStep /\ data' = EncConnectionClosed(v)
               /\ ~HasCar(m.cars, v.carID))
               => /\ m'.cars = m.cars
                  /\ Returned' = [m EXCEPT !.totalDisconnections = @ + 1]]_vars
    /\ [][(data # <<>> /\ data[1] = ACSP_CONNECTION_CLOSED) => HandlerGoesOn]_vars

\* slot 7 closed while the roster holds only slot 3
C13_Witness ==
    /\ prog = <<>>
    /\ data \in {EncConnectionClosed(v) : v \in ConnectionClosedVals}
    /\ DecodeConnectionClosed(Tail(data)).carID = 7
    /\ DOMAIN m.cars = {3}
    /\ m.cars[3].IsConnected
    /\ m.totalDisconnections = 1

\* C14: a record is never deleted: a slot that has a record in one state has
\* one in every later state, connected or not.
C14_RecordsNeverDeleted ==
    [][DOMAIN m.cars \subseteq DOMAIN m'.cars]_vars

\* slot 3 joined, then a slot-info event reports it as not connected: the
\* record is still there
C14_Witness ==
    /\ nframes = 2
    /\ data \in {EncCarInfo(v) : v \in CarInfoVals}
    /\ HasCar(m.cars, 3)
    /\ ~m.cars[3].IsConnected
    /\ m.totalConnections = 1

\* the track string of a new-session event
TrackString(v) == v.track \o <<32, 40>> \o v.trackConfig \o <<41>>

\* C15 (as claimed): after a new-session or a session-info event every field
\* of the session context comes from that event; a field the event does not
\* carry keeps nothing of an earlier event.
C15_ContextOverwrittenWholesale ==
    [][/\ \A v \in NewSessionVals :
            (FrameStep /\ data' = EncNewSession(v))
               => /\ m'.serverName = v.serverName
                  /\ m'.trackName = TrackString(v)
                  /\ m'.sessionType = ""
       /\ \A v \in SessionInfoVals :
            (FrameStep /\ data' = EncSessionInfo(v))
               => /\ m'.serverName = v.serverName
                  /\ m'.sessionType = SessionTypeName(v.sessionType)
                  /\ m'.trackName = <<>>]_vars

\* C15 (amended): a new-session event overwrites the server name and the
\* track string and keeps the session-type label; a session-info event
\* overwrites the server name and the session-type label and keeps the track
\* string; neither changes anything else of the monitor.
C15_ContextOverwrittenPerEvent ==
    [][/\ \A v \in NewSessionVals :
            (FrameStep /\ data' = EncNewSession(v))
               => m' = [m EXCEPT !.serverName = v.serverName,
                                 !.trackName = TrackString(v)]
       /\ \A v \in SessionInfoVals :
            (FrameStep /\ data' = EncSessionInfo(v))
               => m' = [m EXCEPT !.serverName = v.serverName,
                                 !.sessionType =
                                     SessionTypeName(v.sessionType)]]_vars

\* a new session handled after a session-info event: the label of the
\* earlier event is still there
C15_Witness ==
    /\ data \in {EncNewSession(v) : v \in NewSessionVals}
    /\ m.sessionType \in {"Practice", "Race", "Unknown"}
    /\ m.trackName # <<>>

\* the four lifetime counters
CounterNames ==
    {"totalLaps", "totalCollisions", "totalConnections", "totalDisconnections"}

\* C12: no step resets or decrements a lifetime counter; a step leaves each
\* of the four counters as it is or adds exactly one to it.
C12_CountersNonDecreasing ==
    [][\A c \in CounterNames : m'[c] - m[c] \in {0, 1}]_vars

\* a new session is handled after a driver has joined, and the connections
\* counter still holds the join
C12_Witness ==
    /\ data \in {EncNewSession(v) : v \in NewSessionVals}
    /\ m.serverName # <<>>
    /\ m.totalConnections = 1

---------------------------------------------------------------------------
(* Properties of the snapshot fetch, checked under SpecSnapshot *)

\* task t takes a step of FetchHTTPInfo
FetchStep(t) ==
    /\ pc[t] \in {"fetch", "fetch.Lock", "fetch.store", "fetch.Unlock"}
    /\ pc'[t] # pc[t]

\* the metrics handler copies the snapshot pointer
InfoStep == pc["http"] = "info.read" /\ pc'["http"] = "info.RUnlock"

\* the metrics handler writes its response
WriteStep == pc["http"] = "write" /\ pc'["http"] = "idle"

\* C10 (as claimed): no step of a failed fetch, of a poll cycle or of a
\* metrics request, changes the snapshot record, and the metrics response
\* written after it carries the gauges of the record the monitor held.
C10_FailedFetchKeepsSnapshot ==
    /\ [][\A t \in Fetchers :
            (FetchStep(t) /\ FailedResponse(loc'[t].resp))
               => m'.serverInfo = m.serverInfo]_vars
    /\ [][InfoStep => loc'["http"].info = m.serverInfo]_vars
    /\ [][WriteStep => metrics'.gauges = Gauges(loc["http"].info)]_vars

\* C11 (as claimed): a metrics response carries the sentinel lines exactly
\* when, as the handler copies the snapshot pointer, no snapshot fetch has
\* succeeded so far, and the labeled gauges with ac_server_up 1 once a fetch
\* has succeeded.
C11_SentinelIffNeverSucceeded ==
    /\ [][InfoStep => (loc'["http"].info = Nil <=> ~succeeded)]_vars
    /\ [][WriteStep
            => metrics'.gauges.up = IF loc["http"].info = Nil THEN 0 ELSE 1]_vars

\* C27: a session-info event labels the session context by the table
\* 0 Practice, 1 Qualifying, 2 Race, and "Unknown" for every other ordinal;
\* the statistics line labels the session ordinal of the snapshot record by
\* the table 0 Booking, 1 Practice, 2 Qualifying, 3 Race.
C27_SessionLabels ==
    /\ [][\A v \in SessionInfoVals :
             (data = EncSessionInfo(v) /\ prog # <<>> /\ prog' = <<>>)
                => m'.sessionType =
                      CASE v.sessionType = 0 -> "Practice"
                        [] v.sessionType = 1 -> "Qualifying"
                        [] v.sessionType = 2 -> "Race"
                        [] OTHER -> "Unknown"]_vars
    /\ [][m'.sessionType # m.sessionType
            => data \in {EncSessionInfo(v) : v \in SessionInfoVals}]_vars
    /\ [][(printed' # printed /\ printed' # Nil
             /\ m'.serverInfo.Session \in 0..3)
            => printed'.mode =
                  <<"Booking", "Practice", "Qualifying", "Race">>
                      [m'.serverInfo.Session + 1]]_vars

\* ordinal 3 in both: "Unknown" in the session context, "Race" in the
\* statistics line
C27_Witness ==
    /\ \E v \in SessionInfoVals : v.sessionType = 3 /\ data = EncSessionInfo(v)
    /\ m.sessionType = "Unknown"
    /\ m.serverInfo # Nil /\ m.serverInfo.Session = 3
    /\ printed # Nil /\ printed.mode = "Race"

---------------------------------------------------------------------------
(* Properties of the tasks running side by side, checked under SpecConc *)

\* a task other than the decode task is about to read the roster
ReadsRoster(t) ==
    \/ t = "poll" /\ pc[t] = "stats.print"
    \/ t = "query" /\ pc[t] = "count.read"

\* C9: a task that reads the roster while the decode task handles a roster
\* event never sees a record of which only some fields have been written:
\* the roster it reads is the roster as the last completed update left it,
\* that is, as it was before the event or as it is after it.
C9_NoPartialParticipant ==
    \A t \in Workers : ReadsRoster(t) => m.cars = stable

\* GetConnectedCount holds the read lock, and the handler of a new-connection
\* event waits for the lock to write the record of slot 3
C9_Witness ==
    /\ pc["query"] = "count.read"
    /\ mu.r = {"query"}
    /\ At({"Lock"})
    /\ data[1] = ACSP_NEW_CONNECTION

\* the snapshot records the responses of the snapshot source parse to
SnapshotRecords == {Unmarshal(r.body).info : r \in {q \in ConcResponses : OkResponse(q)}}

\* a fetcher writes the record it has parsed
StoreStep(t) == pc[t] = "fetch.store" /\ pc'[t] = "fetch.Unlock"

\* C16: while poll cycles and metrics requests race to replace the snapshot
\* record, the record is at every instant absent or equal in all fields to
\* the payload of one fetch, never a mixture of two; a replacement writes the
\* payload of its own fetch whole, so writing the payload the record already
\* holds changes nothing.
C16_SnapshotReplacedWhole ==
    /\ [](m.serverInfo = Nil \/ m.serverInfo \in SnapshotRecords)
    /\ [][\A t \in Fetchers :
            StoreStep(t)
               => /\ m' = [m EXCEPT !.serverInfo = loc[t].info]
                  /\ (loc[t].info = m.serverInfo => m' = m)]_vars

\* a poll cycle and a metrics request have fetched different payloads; the
\* cycle has written its payload and the request is about to replace it
C16_Witness ==
    /\ m.serverInfo \in SnapshotRecords
    /\ pc["http"] = "fetch.store"
    /\ pc["poll"] = "send"
    /\ loc["poll"].info = m.serverInfo
    /\ loc["http"].info # m.serverInfo

\* the metrics handler has formatted its gauge lines and not yet sent them
GaugesTaken ==
    pc["http"] \in {"counters.RLock", "counters.read", "counters.RUnlock", "write"}

\* the metrics handler reads the record or formats from its copy
ReaderStep ==
    /\ pc["http"] \in {"info.RLock", "info.read", "info.RUnlock", "format",
                       "format.values"}
    /\ pc'["http"] # pc["http"]

\* C17: a metrics request works on a point-in-time view: the gauge lines of
\* one response, labels and values, all come from the one record the handler
\* copied; a refresh that replaces the record while the response is being
\* formatted leaves what the handler has taken as it is, and the handler's
\* reading leaves the monitor as it is.
C17_PointInTimeView ==
    /\ [](GaugesTaken => loc["http"].gauges = Gauges(loc["http"].info))
    /\ [](metrics # Nil
            => \E R \in SnapshotRecords \cup {Nil} : metrics.gauges = Gauges(R))
    /\ [][ReaderStep => m' = m]_vars
    /\ [][StoreStep("poll") => loc'["http"] = loc["http"]]_vars

\* the handler has taken the labels from its copy and a refresh has since
\* put another record in place
C17_Witness ==
    /\ pc["http"] = "format.values"
    /\ loc["http"].info \in SnapshotRecords
    /\ loc["http"].labels = GaugeLabels(loc["http"].info)
    /\ m.serverInfo \in SnapshotRecords
    /\ m.serverInfo # loc["http"].info

\* task t holds the roster/context lock or the counter lock
Holds(t) ==
    \/ mu.w = t \/ t \in mu.r
    \/ metricsLock.w = t \/ t \in metricsLock.r

\* C18: no task holds the roster/context lock or the counter lock while it
\* formats or prints: not the decode task at the notification line of a
\* handler, not the poll cycle at the statistics print, not the metrics
\* handler while it formats its gauge and counter lines or writes the response.
C18_NoLockWhileFormatting ==
    /\ At({"print"}) => ~Holds("listen")
    /\ pc["poll"] = "stats.print" => ~Holds("poll")
    /\ pc["http"] \in {"format", "format.values", "counters.read", "write"}
          => ~Holds("http")

\* C19: no lock is held across a network call or a sleep: a task that is
\* fetching the snapshot, sending the per-slot requests and sleeping, writing
\* a response, or waiting for a datagram holds neither lock; so while the
\* poll cycle is fetching or sending, the decode task finds the roster lock
\* free unless another reader is inside its in-memory read.
C19_NoLockAcrossNetwork ==
    /\ \A t \in Fetchers : pc[t] = "fetch" => ~Holds(t)
    /\ pc["poll"] = "send" => ~Holds("poll")
    /\ pc["http"] = "write" => ~Holds("http")
    /\ prog = <<>> => ~Holds("listen")
    /\ (/\ pc["poll"] \in {"fetch", "send"}
        /\ At({"Lock"})
        /\ ~Holds("http") /\ ~Holds("query")) => CanLock(mu)

\* the decode task is inside a roster update while the poll cycle is half
\* way through its requests
C19_Witness ==
    /\ pc["poll"] = "send"
    /\ Len(sent) = 25
    /\ mu.w = "listen"
    /\ runs["poll"] = 1

\* the decode task takes the last step of the handler of a new-session event
NewSessionHandled ==
    /\ data # <<>> /\ data[1] = ACSP_NEW_SESSION
    /\ prog # <<>> /\ prog' = <<>>

\* C21: every processed new-session event starts a fresh poll cycle: by the
\* time its handler returns and the decode task is back at receiving, one
\* more poll cycle has been started, to run on a task of its own after the
\* settle delay.
C21_NewSessionStartsPollCycle ==
    [][NewSessionHandled => runs'["poll"] = runs["poll"] + 1]_vars

\* the order of the steps of a poll cycle: the position GetCurrentStats may
\* move to from each position
PollOrder(p) ==
    CASE p = "idle" -> {"fetch"}
      [] p = "fetch" -> {"fetch.Lock", "send"}
      [] p = "fetch.Lock" -> {"fetch.store"}
      [] p = "fetch.store" -> {"fetch.Unlock"}
      [] p = "fetch.Unlock" -> {"send"}
      [] p = "send" -> {"send", "stats.RLock"}
      [] p = "stats.RLock" -> {"stats.print"}
      [] p = "stats.print" -> {"stats.RUnlock"}
      [] p = "stats.RUnlock" -> {"idle"}

\* the poll task takes a step
PollStep == pc'["poll"] # pc["poll"] \/ loc'["poll"] # loc["poll"]

\* C22: one poll cycle does, in this order, one snapshot fetch, the fifty
\* per-slot requests for the slots 0..49 in ascending order and no other,
\* the grace wait, and the aggregated read; a failed fetch is followed by the
\* requests, the wait and the read all the same.
C22_PollCycleOrder ==
    /\ [](Len(sent) <= 50 /\ \A i \in 1..Len(sent) : sent[i] = i - 1)
    /\ [][(pc["poll"] = "send" /\ pc'["poll"] = "stats.RLock")
            => Len(sent) = 50]_vars
    /\ [][PollStep => pc'["poll"] \in PollOrder(pc["poll"])]_vars
    /\ [][(PollStep /\ pc["poll"] = "fetch")
            => /\ nfetch' = nfetch + 1
               /\ (fetchErr' => pc'["poll"] = "send")]_vars
    /\ [][(PollStep /\ pc["poll"] # "fetch") => nfetch' = nfetch]_vars
    /\ [][sent' # sent => (PollStep /\ pc["poll"] = "send")]_vars
    /\ [][(PollStep /\ pc["poll"] = "send" /\ pc'["poll"] = "send")
            => Len(sent') = IF Len(sent) = 50 THEN 1 ELSE Len(sent) + 1]_vars
    /\ [][printed' # printed => (PollStep /\ pc["poll"] = "stats.print")]_vars

\* a poll cycle whose fetch failed has sent its requests and done its read
C22_Witness ==
    /\ runs["poll"] = 1 /\ runs["http"] = 0
    /\ fetchErr
    /\ pc["poll"] = "stats.RUnlock"
    /\ Len(sent) = 50

\* C23: every poll cycle that has started completes, whatever the snapshot
\* source answers (no answer ends as a failed fetch when the client times
\* out) and whether or not any datagram arrives.
C23_PollCycleCompletes == (pc["poll"] # "idle") ~> (pc["poll"] = "idle")

\* a poll cycle has run to its end although its fetch failed and no datagram
\* has ever been received
C23_Witness ==
    /\ runs["poll"] = 1 /\ runs["http"] = 0
    /\ resp # Nil /\ resp.getErr
    /\ nframes = 0
    /\ Len(sent) = 50
    /\ pc["poll"] = "idle"

\* the decode task and the workers
Tasks == Workers \cup {"listen"}

HoldsMu(t) == mu.w = t \/ t \in mu.r

HoldsMetricsLock(t) == metricsLock.w = t \/ t \in metricsLock.r

\* the next step of task t is the acquisition of a lock
AtAcquire(t) ==
    IF t = "listen" THEN At({"Lock", "RLock", "metricsLock.Lock"})
    ELSE pc[t] \in {"fetch.Lock", "stats.RLock", "info.RLock", "count.RLock",
                    "counters.RLock"}

\* C29: no task holds the roster/context lock and the counter lock at the
\* same time; a task that holds one of them has released it before it goes
\* on to acquire a lock, so no task waits for a lock while it holds one and
\* the tasks cannot deadlock on the two locks.
C29_NeverBothLocks ==
    \A t \in Tasks :
        /\ ~(HoldsMu(t) /\ HoldsMetricsLock(t))
        /\ (HoldsMu(t) \/ HoldsMetricsLock(t)) => ~AtAcquire(t)

\* the two locks held at once by different tasks: the decode task counts a
\* connection under the counter lock while a poll cycle stores its snapshot
\* under the roster lock
C29_Witness ==
    /\ metricsLock.w = "listen"
    /\ At({"inc"})
    /\ mu.w = "poll"
    /\ pc["poll"] = "fetch.store"

\* C30: the four counter values of one metrics response are read within a
\* single shared hold of the counter lock and are mutually consistent: while
\* the lines are being formatted every value already read is still the
\* counter's value, and when the last one is read the four lines equal the
\* counters of the monitor at that instant.
C30_CountersConsistent ==
    /\ pc["http"] \in {"counters.read", "counters.RUnlock"} =>
           "http" \in metricsLock.r
    /\ pc["http"] = "counters.read" =>
           \A i \in 1..Len(loc["http"].lines) :
               loc["http"].lines[i] = m[CounterFields[i]]
    /\ pc["http"] = "counters.RUnlock" => loc["http"].counters = Counters(m)

\* a metrics request that has formatted its first counter lines while the
\* decode task, having recorded a connection, waits for the counter lock to
\* count it
C30_Witness ==
    /\ pc["http"] = "counters.read"
    /\ Len(loc["http"].lines) >= 2
    /\ At({"metricsLock.Lock"})
    /\ ~CanLock(metricsLock)
    /\ data # <<>> /\ data[1] = ACSP_NEW_CONNECTION

\* the roster holds the update of the new-connection event in data
ConnectionRecorded ==
    LET d == DecodeNewConnection(Tail(data))
    IN  /\ HasCar(m.cars, d.carID)
        /\ m.cars[d.carID].CarID = d.carID
        /\ m.cars[d.carID].IsConnected
        /\ m.cars[d.carID].DriverName = d.driverName
        /\ m.cars[d.carID].DriverGUID = d.driverGUID

\* the roster holds the update of the connection-closed event in data
ClosureRecorded ==
    LET d == DecodeConnectionClosed(Tail(data))
    IN  HasCar(m.cars, d.carID) => ~m.cars[d.carID].IsConnected

\* C31: for new-connection and connection-closed events the roster update
\* and the counter increment are two separate critical sections, roster
\* first: when the connections (or disconnections) counter is incremented the
\* decode task holds the counter lock only, and the roster update of that
\* event has been made and released, so a reader that sees the incremented
\* counter and then reads the roster finds the update; the roster update is
\* visible to readers before the counter is incremented.
C31_RosterBeforeCounter ==
    [][/\ m'.totalConnections # m.totalConnections =>
              /\ data[1] = ACSP_NEW_CONNECTION
              /\ metricsLock.w = "listen" /\ ~HoldsMu("listen")
              /\ ConnectionRecorded
              /\ m'.cars = m.cars
       /\ m'.totalDisconnections # m.totalDisconnections =>
              /\ data[1] = ACSP_CONNECTION_CLOSED
              /\ metricsLock.w = "listen" /\ ~HoldsMu("listen")
              /\ ClosureRecorded
              /\ m'.cars = m.cars]_vars

\* a caller of GetConnectedCount that has read the roster with the new
\* participant in it while the connection is not counted yet: the decode
\* task is between its two critical sections
C31_Witness ==
    /\ data # <<>> /\ data[1] = ACSP_NEW_CONNECTION
    /\ At({"metricsLock.Lock"})
    /\ ConnectionRecorded
    /\ m.totalConnections = 0
    /\ pc["query"] = "count.RUnlock"
    /\ loc["query"].count = 1

============================================================================
